---- MODULE Spec2Model ----
(***************************************************************************)
(* Model of the text-rendering core of wut_rust (src/src/gemini.rs and     *)
(* src/src/prompt.rs): the ANSI stripper, GeminiClient::wrap_text and the  *)
(* line state machine GeminiClient::convert_markdown_to_ansi.              *)
(*                                                                         *)
(* A string is a sequence of characters; a character is a one-character    *)
(* TLA+ string, except ESC, which stands for the byte 0x1b.                *)
(***************************************************************************)
EXTENDS Integers, Sequences, FiniteSets, TLC

\* ------------------------------------------------------------------ bounds

\* Longest generated input of the wrapper.
MaxWrapLen == 5
\* Largest max_width and indent the wrapper is called with.
MaxWidth == 3
MaxIndent == 3
\* Longest generated input of the stripper.
MaxStripLen == 6
\* Most lines of a generated multi-line input of the transformer.
MaxLines == 4
\* Longest generated one-line input of the transformer, and longest
\* generated heading text.
MaxInlineLen == 6
MaxHeadingLen == 3

\* ------------------------------------------------------------- characters

ESC == "ESC"

Digits == {"0", "1", "2", "3", "4", "5", "6", "7", "8", "9"}

Letters ==
  {"a", "b", "c", "d", "e", "f", "g", "h", "i", "j", "k", "l", "m",
   "n", "o", "p", "q", "r", "s", "t", "u", "v", "w", "x", "y", "z",
   "A", "B", "C", "D", "E", "F", "G", "H", "I", "J", "K", "L", "M",
   "N", "O", "P", "Q", "R", "S", "T", "U", "V", "W", "X", "Y", "Z"}

\* A character outside ASCII, e with an acute accent: two bytes in UTF-8.
NonAscii == "U+00E9"

\* char::len_utf8 on the characters of the model.
Utf8Len(c) == IF c = NonAscii THEN 2 ELSE 1

\* char::is_whitespace / the regex class \s, on the characters of the model.
Whitespace == {" ", "\t", "\n", "\r"}

\* All strings over alphabet A of length at most n.
StringsUpTo(A, n) == UNION {[1..k -> A] : k \in 0..n}

Max(a, b) == IF a >= b THEN a ELSE b

Spaces(n) == [k \in 1..n |-> " "]

\* s[from..], the suffix of s that starts at index from.
Suffix(s, from) == SubSeq(s, from, Len(s))

\* Whether pat occurs in s at index p.
StartsAt(s, p, pat) ==
  /\ p >= 1
  /\ p + Len(pat) - 1 <= Len(s)
  /\ SubSeq(s, p, p + Len(pat) - 1) = pat

\* The least index q >= p with pat at q, or 0 when there is none.
FindFrom(s, p, pat) ==
  LET hits == {q \in p..Len(s) : StartsAt(s, q, pat)}
  IN  IF hits = {} THEN 0 ELSE CHOOSE q \in hits : \A r \in hits : q <= r

RECURSIVE Flatten(_, _)
\* The strings of ss joined with sep between them (slice::join).
Flatten(ss, sep) ==
  IF ss = <<>> THEN <<>>
  ELSE IF Len(ss) = 1 THEN ss[1]
  ELSE ss[1] \o sep \o Flatten(Tail(ss), sep)

\* ----------------------------------------------------------- ANSI stripper

\* The regex \x1b\[[0-9;]*[a-zA-Z] tried at index p: the index of the final
\* letter of the match, or 0 when the regex does not match at p.
AnsiMatchEnd(s, p) ==
  IF ~StartsAt(s, p, <<ESC, "[">>) THEN 0
  ELSE LET stops == {q \in (p + 2)..Len(s) : s[q] \notin Digits \cup {";"}}
       IN  IF stops = {} THEN 0
           ELSE LET q == CHOOSE q \in stops : \A r \in stops : q <= r
                IN  IF s[q] \in Letters THEN q ELSE 0

RECURSIVE StripFrom(_, _)
StripFrom(s, p) ==
  IF p > Len(s) THEN <<>>
  ELSE LET e == AnsiMatchEnd(s, p)
       IN  IF e > 0 THEN StripFrom(s, e + 1)
           ELSE <<s[p]>> \o StripFrom(s, p + 1)

RECURSIVE StripFirstFrom(_, _)
StripFirstFrom(s, p) ==
  IF p > Len(s) THEN <<>>
  ELSE LET e == AnsiMatchEnd(s, p)
       IN  IF e > 0 THEN Suffix(s, e + 1)
           ELSE <<s[p]>> \o StripFirstFrom(s, p + 1)

\* The stripper with Regex::replace in place of Regex::replace_all: only
\* the first match is dropped.
StripAnsiFirstOnly(s) == StripFirstFrom(s, 1)

\* ansi_regex.replace_all(s, ""): one left-to-right pass over s that drops
\* every non-overlapping match.
StripAnsi(s) == StripFrom(s, 1)

\* ------------------------------------------------------------- wrap_text

\* str::len(): the length of a string in bytes.
StrLen(s) ==
  Len(s) + Cardinality({k \in 1..Len(s) : Utf8Len(s[k]) = 2})

\* usize arithmetic wraps modulo 2^UsizeBits in a release build.  The width
\* is taken as 30 bits so that the values stay inside TLC's integers; what
\* the code reads of a wrapped difference is only that it exceeds the
\* length of every line.
UsizeBits == 30
UsizeModulus == 2 ^ UsizeBits

RECURSIVE SplitFrom(_, _, _)
\* The words after index p - 1, cur being the word read so far.
SplitFrom(s, p, cur) ==
  IF p > Len(s) THEN (IF cur = <<>> THEN <<>> ELSE <<cur>>)
  ELSE IF s[p] \in Whitespace
       THEN (IF cur = <<>> THEN <<>> ELSE <<cur>>) \o SplitFrom(s, p + 1, <<>>)
       ELSE SplitFrom(s, p + 1, Append(cur, s[p]))

\* str::split_whitespace: the maximal runs of non-whitespace characters.
SplitWhitespace(s) == SplitFrom(s, 1, <<>>)

\* format!("{:width$}", s) and format!("{:<width$}", s) of a string s: s
\* padded on the right with spaces up to width, and s itself when it is
\* already that long.
FormatWidth(s, width) == s \o Spaces(Max(0, width - Len(s)))

\* Lines 479-480 and 484: the length wrap_text measures a word or a line
\* by: the ansi_regex matches replaced by "", then str::len().
VisibleLength(s) == StrLen(StripAnsi(s))

RECURSIVE WrapWords(_, _, _, _)
RECURSIVE WrapWordsDropsLast(_, _, _, _)
\* WrapWords with line 493 left out: the line still open when the words
\* run out is not pushed.
WrapWordsDropsLast(words, wrapped_lines, current_line, effective_width) ==
  IF words = <<>> THEN wrapped_lines
  ELSE LET word == Head(words)
           word_stripped == StripAnsi(word)
           current_line_stripped == StripAnsi(current_line)
       IN  IF current_line = <<>>
           THEN WrapWordsDropsLast(Tail(words), wrapped_lines, word, effective_width)
           ELSE IF StrLen(current_line_stripped) + 1 + StrLen(word_stripped)
                     <= effective_width
           THEN WrapWordsDropsLast(Tail(words), wrapped_lines,
                                   current_line \o <<" ">> \o word, effective_width)
           ELSE WrapWordsDropsLast(Tail(words), Append(wrapped_lines, current_line),
                                   word, effective_width)

\* The loop of wrap_text over the words: the closed lines followed by the
\* line still open at the end.
WrapWords(words, wrapped_lines, current_line, effective_width) ==
  IF words = <<>> THEN Append(wrapped_lines, current_line)
  ELSE LET word == Head(words)
           word_stripped == StripAnsi(word)
           current_line_stripped == StripAnsi(current_line)
       IN  IF current_line = <<>>
           THEN WrapWords(Tail(words), wrapped_lines, word, effective_width)
           ELSE IF StrLen(current_line_stripped) + 1 + StrLen(word_stripped)
                     <= effective_width
           THEN WrapWords(Tail(words), wrapped_lines,
                          current_line \o <<" ">> \o word, effective_width)
           ELSE WrapWords(Tail(words), Append(wrapped_lines, current_line),
                          word, effective_width)

\* The lines of the result of wrap_text: every line after the first gets
\* the formatted indent in front.
WrapResultLines(wrapped_lines, current_indent) ==
  [k \in 1..Len(wrapped_lines) |->
     IF k > 1 THEN FormatWidth(<<" ">>, current_indent) \o wrapped_lines[k]
     ELSE wrapped_lines[k]]

\* wrap_text once effective_width is computed.
WrapWith(text, effective_width, current_indent) ==
  Flatten(WrapResultLines(
            WrapWords(SplitWhitespace(text), <<>>, <<>>, effective_width),
            current_indent),
          <<"\n">>)

\* max_width - current_indent on usize, as a release build computes it.
EffectiveWidth(max_width, current_indent) ==
  (max_width - current_indent) % UsizeModulus

\* wrap_text as a release build (no overflow checks) computes it.
wrap_text(text, max_width, current_indent) ==
  WrapWith(text, EffectiveWidth(max_width, current_indent), current_indent)

\* What a call of wrap_text can do: with current_indent > max_width the
\* subtraction overflows, which panics in a build with overflow checks and
\* wraps in a build without.
WrapOutcomes(text, max_width, current_indent) ==
  {[kind |-> "ok", value |-> wrap_text(text, max_width, current_indent)]}
  \cup (IF current_indent > max_width
        THEN {[kind |-> "panic", value |-> <<>>]}
        ELSE {})

\* str::lines: the pieces between "\n"; a final empty piece is dropped.
RECURSIVE LinesFrom(_, _, _)
LinesFrom(s, p, cur) ==
  IF p > Len(s) THEN (IF cur = <<>> THEN <<>> ELSE <<cur>>)
  ELSE IF s[p] = "\n" THEN <<cur>> \o LinesFrom(s, p + 1, <<>>)
       ELSE LinesFrom(s, p + 1, Append(cur, s[p]))

Lines(s) == LinesFrom(s, 1, <<>>)

\* The pieces of s between "\n", the last one kept (split('\n')).
RECURSIVE SplitNewlineFrom(_, _, _)
SplitNewlineFrom(s, p, cur) ==
  IF p > Len(s) THEN <<cur>>
  ELSE IF s[p] = "\n" THEN <<cur>> \o SplitNewlineFrom(s, p + 1, <<>>)
       ELSE SplitNewlineFrom(s, p + 1, Append(cur, s[p]))

SplitNewline(s) == SplitNewlineFrom(s, 1, <<>>)

\* ------------------------------------------- convert_markdown_to_ansi: text

RESET == <<ESC, "[", "0", "m">>
BOLD == <<ESC, "[", "1", "m">>
ITALIC == <<ESC, "[", "3", "m">>
CYAN == <<ESC, "[", "3", "6", "m">>
MAX_LINE_WIDTH == 100

\* The backtick character, which a TLA+ string cannot hold.
BACKTICK == "BT"

FENCE == <<BACKTICK, BACKTICK, BACKTICK>>

\* Whether pat occurs somewhere in s.
Contains(s, pat) == FindFrom(s, 1, pat) > 0

UpperCase ==
  <<"A", "B", "C", "D", "E", "F", "G", "H", "I", "J", "K", "L", "M",
    "N", "O", "P", "Q", "R", "S", "T", "U", "V", "W", "X", "Y", "Z">>
LowerCase ==
  <<"a", "b", "c", "d", "e", "f", "g", "h", "i", "j", "k", "l", "m",
    "n", "o", "p", "q", "r", "s", "t", "u", "v", "w", "x", "y", "z">>

ToLower(c) ==
  IF \E k \in 1..26 : UpperCase[k] = c
  THEN LowerCase[CHOOSE k \in 1..26 : UpperCase[k] = c]
  ELSE c

LowerString(s) == [k \in 1..Len(s) |-> ToLower(s[k])]

\* next_steps_heading_regex.is_match: (?i)Next Steps: anywhere in the line.
NextStepsMatch(line) ==
  Contains(LowerString(line),
           <<"n", "e", "x", "t", " ", "s", "t", "e", "p", "s", ":">>)

\* The length of the longest prefix of s[p..] made of characters of class.
RunLength(s, p, class) ==
  LET stops == {q \in p..Len(s) : s[q] \notin class}
  IN  IF stops = {} THEN Len(s) - p + 1
      ELSE (CHOOSE q \in stops : \A r \in stops : q <= r) - p

\* numbered_list_start_regex ^(\d+\.\s+)(.*)$: the length of capture 1
\* (num_part), or 0 when the line does not match.
NumPartLen(line) ==
  LET d == RunLength(line, 1, Digits)
  IN  IF d = 0 \/ d + 1 > Len(line) \/ line[d + 1] # "." THEN 0
      ELSE LET ws == RunLength(line, d + 2, Whitespace)
           IN  IF ws = 0 THEN 0 ELSE d + 1 + ws

\* str::trim().is_empty()
IsBlank(s) == \A k \in 1..Len(s) : s[k] \in Whitespace

\* str::trim()
Trim(s) ==
  IF IsBlank(s) THEN <<>>
  ELSE LET first == CHOOSE k \in 1..Len(s) :
                      s[k] \notin Whitespace /\ \A j \in 1..(k - 1) : s[j] \in Whitespace
           last == CHOOSE k \in 1..Len(s) :
                     s[k] \notin Whitespace /\ \A j \in (k + 1)..Len(s) : s[j] \in Whitespace
       IN  SubSeq(s, first, last)

RECURSIVE TrimStartMatches(_, _)
\* str::trim_start_matches(pat): every leading repetition of pat removed.
TrimStartMatches(s, pat) ==
  IF StartsAt(s, 1, pat) THEN TrimStartMatches(Suffix(s, Len(pat) + 1), pat)
  ELSE s

RECURSIVE RemoveFrom(_, _, _)
RemoveFrom(s, p, pat) ==
  IF p > Len(s) THEN <<>>
  ELSE IF StartsAt(s, p, pat) THEN RemoveFrom(s, p + Len(pat), pat)
       ELSE <<s[p]>> \o RemoveFrom(s, p + 1, pat)

\* str::replace(pat, ""): every non-overlapping occurrence, left to right.
Remove(s, pat) == RemoveFrom(s, 1, pat)

\* A regex match tried at one index: last is the index of its last
\* character (0: no match there), cap the text of its capture group.
NoMatch == [last |-> 0, cap |-> <<>>]

\* open (.*?) close at index p: the lazy body ends at the first close.
LazySpanAt(s, p, open, close) ==
  IF ~StartsAt(s, p, open) THEN NoMatch
  ELSE LET q == FindFrom(s, p + Len(open), close)
       IN  IF q = 0 THEN NoMatch
           ELSE [last |-> q + Len(close) - 1,
                 cap |-> SubSeq(s, p + Len(open), q - 1)]

\* bold_regex \*\*(.*?)\*\*|__(.*?)__ at index p, first alternative first.
BoldMatchAt(s, p) ==
  LET stars == LazySpanAt(s, p, <<"*", "*">>, <<"*", "*">>)
  IN  IF stars.last > 0 THEN stars
      ELSE LazySpanAt(s, p, <<"_", "_">>, <<"_", "_">>)

\* d([^d\s][^d]*[^d\s])d at index p, for a one-character delimiter d: the
\* body runs to the first d after p, has at least two characters, and
\* neither its first nor its last character is whitespace.
EmphasisSpanAt(s, p, d) ==
  IF ~StartsAt(s, p, <<d>>) THEN NoMatch
  ELSE LET q == FindFrom(s, p + 1, <<d>>)
       IN  IF /\ q >= p + 3
              /\ s[p + 1] \notin Whitespace
              /\ s[q - 1] \notin Whitespace
           THEN [last |-> q, cap |-> SubSeq(s, p + 1, q - 1)]
           ELSE NoMatch

\* italics_regex \*([^*\s][^*]*[^*\s])\*|_([^_\s][^_]*[^_\s])_ at index p.
ItalicMatchAt(s, p) ==
  LET star == EmphasisSpanAt(s, p, "*")
  IN  IF star.last > 0 THEN star ELSE EmphasisSpanAt(s, p, "_")

\* monospace_regex BT([^BT]+)BT at index p, BT being the backtick.
MonospaceMatchAt(s, p) ==
  IF ~StartsAt(s, p, <<BACKTICK>>) THEN NoMatch
  ELSE LET q == FindFrom(s, p + 1, <<BACKTICK>>)
       IN  IF q >= p + 2 THEN [last |-> q, cap |-> SubSeq(s, p + 1, q - 1)]
           ELSE NoMatch

\* The regex named re tried at index p.
RegexMatchAt(re, s, p) ==
  CASE re = "bold_regex" -> BoldMatchAt(s, p)
    [] re = "italics_regex" -> ItalicMatchAt(s, p)
    [] re = "monospace_regex" -> MonospaceMatchAt(s, p)

RECURSIVE ReplaceAllFrom(_, _, _, _, _)
\* Regex::replace_all from index p: each leftmost match of the regex re
\* becomes on \o capture \o off; the matches do not overlap.
ReplaceAllFrom(re, s, p, on, off) ==
  IF p > Len(s) THEN <<>>
  ELSE LET m == RegexMatchAt(re, s, p)
       IN  IF m.last > 0
           THEN on \o m.cap \o off \o ReplaceAllFrom(re, s, m.last + 1, on, off)
           ELSE <<s[p]>> \o ReplaceAllFrom(re, s, p + 1, on, off)

\* The three literal replacements of lines 677-680.
StripAsterisks(s) == Remove(Remove(Remove(s, <<"*", "*">>), <<"*", " ">>), <<" ", "*">>)

ReplaceBold(s) == ReplaceAllFrom("bold_regex", s, 1, BOLD, RESET)
ReplaceItalics(s) == ReplaceAllFrom("italics_regex", s, 1, ITALIC, RESET)
ReplaceMonospace(s) == ReplaceAllFrom("monospace_regex", s, 1, CYAN, RESET)

\* heading_regex ^#\s*(.*)$ replaced by "\n" BOLD $1 RESET "\n": the regex
\* is anchored, so it matches at most once, at the start of the line.
ReplaceHeading(s) ==
  IF StartsAt(s, 1, <<"#">>)
  THEN <<"\n">> \o BOLD \o Suffix(s, 2 + RunLength(s, 2, Whitespace)) \o RESET \o <<"\n">>
  ELSE s

\* Lines 677-701: the inline substitutions, in the order of the code.
InlineSubstitutions(s) ==
  ReplaceHeading(ReplaceMonospace(ReplaceItalics(ReplaceBold(StripAsterisks(s)))))

\* ListStep with line 673 left out: the last branch resets the indent and
\* keeps the Next Steps flag.
ListStepKeepsFlag(line, indent, next_steps) ==
  IF NextStepsMatch(line)
  THEN [processed |-> line, wrap_indent |-> 0,
        indent |-> 0, next_steps |-> TRUE]
  ELSE IF NumPartLen(line) > 0
  THEN LET n == NumPartLen(line) + (IF next_steps THEN 4 ELSE 0)
       IN  [processed |-> line, wrap_indent |-> n,
            indent |-> n, next_steps |-> next_steps]
  ELSE IF indent > 0 /\ ~IsBlank(line)
  THEN [processed |-> FormatWidth(<<" ">>, indent) \o line, wrap_indent |-> indent,
        indent |-> indent, next_steps |-> next_steps]
  ELSE [processed |-> line, wrap_indent |-> 0,
        indent |-> 0, next_steps |-> next_steps]

\* ListStep with lines 658-660 left out: an item in the Next Steps section
\* gets the width of its prefix and no more.
ListStepFlatItems(line, indent, next_steps) ==
  IF NextStepsMatch(line)
  THEN [processed |-> line, wrap_indent |-> 0,
        indent |-> 0, next_steps |-> TRUE]
  ELSE IF NumPartLen(line) > 0
  THEN [processed |-> line, wrap_indent |-> NumPartLen(line),
        indent |-> NumPartLen(line), next_steps |-> next_steps]
  ELSE IF indent > 0 /\ ~IsBlank(line)
  THEN [processed |-> FormatWidth(<<" ">>, indent) \o line, wrap_indent |-> indent,
        indent |-> indent, next_steps |-> next_steps]
  ELSE [processed |-> line, wrap_indent |-> 0,
        indent |-> 0, next_steps |-> FALSE]

\* Lines 651-675: the structural step on one Normal-state line, from the
\* list context (indent, next_steps) before it.  processed is the line as
\* it goes on to the inline substitutions, wrap_indent the value of
\* line_indent_for_wrapping.
ListStep(line, indent, next_steps) ==
  IF NextStepsMatch(line)
  THEN [processed |-> line, wrap_indent |-> 0,
        indent |-> 0, next_steps |-> TRUE]
  ELSE IF NumPartLen(line) > 0
  THEN LET n == NumPartLen(line) + (IF next_steps THEN 4 ELSE 0)
       IN  [processed |-> line, wrap_indent |-> n,
            indent |-> n, next_steps |-> next_steps]
  ELSE IF indent > 0 /\ ~IsBlank(line)
  THEN [processed |-> FormatWidth(<<" ">>, indent) \o line, wrap_indent |-> indent,
        indent |-> indent, next_steps |-> next_steps]
  ELSE [processed |-> line, wrap_indent |-> 0,
        indent |-> 0, next_steps |-> FALSE]

\* Lines 648-706: what one Normal-state line pushes onto result_lines.
RenderLine(line, indent, next_steps) ==
  LET step == ListStep(line, indent, next_steps)
  IN  wrap_text(InlineSubstitutions(step.processed), MAX_LINE_WIDTH, step.wrap_indent)

\* ------------------------------------------------ find_syntax_for_language

\* Line 69: SyntaxSet::load_defaults_newlines().  An excerpt of the default
\* grammars, each with its name and file extensions of its own; the order
\* is the order of the set.
SyntaxSet ==
  << [name |-> <<"P", "l", "a", "i", "n", " ", "T", "e", "x", "t">>, file_extensions |-> {<<"t", "x", "t">>}],
     [name |-> <<"J", "a", "v", "a", "S", "c", "r", "i", "p", "t">>, file_extensions |-> {<<"j", "s">>}],
     [name |-> <<"P", "y", "t", "h", "o", "n">>, file_extensions |-> {<<"p", "y">>}],
     [name |-> <<"R", "u", "s", "t">>, file_extensions |-> {<<"r", "s">>}],
     [name |-> <<"M", "a", "r", "k", "d", "o", "w", "n">>,
      file_extensions |-> {<<"m", "d">>, <<"m", "a", "r", "k", "d", "o", "w", "n">>}],
     [name |-> <<"P", "a", "s", "c", "a", "l">>, file_extensions |-> {<<"p", "a", "s">>}],
     [name |-> <<"c", "a", "m", "l", "p", "4">>, file_extensions |-> {<<"c", "a", "m", "l", "p", "4">>}] >>

\* Option<&SyntaxReference>::None.
NoSyntax == [name |-> <<>>, file_extensions |-> {}]

\* The last element of the set that is in hits (iter().rev().find()).
LastSyntax(hits) ==
  IF hits = {} THEN NoSyntax
  ELSE SyntaxSet[CHOOSE k \in hits : \A j \in hits : j <= k]

\* SyntaxSet::find_syntax_by_name: the name compared as it is written.
find_syntax_by_name(name) ==
  LastSyntax({k \in 1..Len(SyntaxSet) : SyntaxSet[k].name = name})

\* SyntaxSet::find_syntax_by_extension: eq_ignore_ascii_case on the file
\* extensions.
find_syntax_by_extension(extension) ==
  LastSyntax({k \in 1..Len(SyntaxSet) :
                \E e \in SyntaxSet[k].file_extensions :
                  LowerString(e) = LowerString(extension)})

\* SyntaxSet::find_syntax_plain_text
find_syntax_plain_text == find_syntax_by_name(<<"P", "l", "a", "i", "n", " ", "T", "e", "x", "t">>)

\* Lines 518-577: the arms of the match on lang_lower, alias and mapped
\* name.
AliasTable ==
  {
    <<<<"j", "s">>,
      <<"J", "a", "v", "a", "S", "c", "r", "i", "p", "t">>>>,
    <<<<"j", "a", "v", "a", "s", "c", "r", "i", "p", "t">>,
      <<"J", "a", "v", "a", "S", "c", "r", "i", "p", "t">>>>,
    <<<<"n", "o", "d", "e">>,
      <<"J", "a", "v", "a", "S", "c", "r", "i", "p", "t">>>>,
    <<<<"t", "s">>,
      <<"T", "y", "p", "e", "S", "c", "r", "i", "p", "t">>>>,
    <<<<"t", "y", "p", "e", "s", "c", "r", "i", "p", "t">>,
      <<"T", "y", "p", "e", "S", "c", "r", "i", "p", "t">>>>,
    <<<<"p", "y">>,
      <<"P", "y", "t", "h", "o", "n">>>>,
    <<<<"p", "y", "t", "h", "o", "n">>,
      <<"P", "y", "t", "h", "o", "n">>>>,
    <<<<"r", "s">>,
      <<"R", "u", "s", "t">>>>,
    <<<<"r", "u", "s", "t">>,
      <<"R", "u", "s", "t">>>>,
    <<<<"g", "o">>,
      <<"G", "o">>>>,
    <<<<"g", "o", "l", "a", "n", "g">>,
      <<"G", "o">>>>,
    <<<<"c", "p", "p">>,
      <<"C", "+", "+">>>>,
    <<<<"c", "+", "+">>,
      <<"C", "+", "+">>>>,
    <<<<"c", "x", "x">>,
      <<"C", "+", "+">>>>,
    <<<<"c">>,
      <<"C">>>>,
    <<<<"j", "a", "v", "a">>,
      <<"J", "a", "v", "a">>>>,
    <<<<"k", "t">>,
      <<"K", "o", "t", "l", "i", "n">>>>,
    <<<<"k", "o", "t", "l", "i", "n">>,
      <<"K", "o", "t", "l", "i", "n">>>>,
    <<<<"c", "s">>,
      <<"C", "#">>>>,
    <<<<"c", "s", "h", "a", "r", "p">>,
      <<"C", "#">>>>,
    <<<<"c", "#">>,
      <<"C", "#">>>>,
    <<<<"r", "b">>,
      <<"R", "u", "b", "y">>>>,
    <<<<"r", "u", "b", "y">>,
      <<"R", "u", "b", "y">>>>,
    <<<<"p", "h", "p">>,
      <<"P", "H", "P">>>>,
    <<<<"s", "w", "i", "f", "t">>,
      <<"S", "w", "i", "f", "t">>>>,
    <<<<"s", "c", "a", "l", "a">>,
      <<"S", "c", "a", "l", "a">>>>,
    <<<<"c", "l", "j">>,
      <<"C", "l", "o", "j", "u", "r", "e">>>>,
    <<<<"c", "l", "o", "j", "u", "r", "e">>,
      <<"C", "l", "o", "j", "u", "r", "e">>>>,
    <<<<"h", "s">>,
      <<"H", "a", "s", "k", "e", "l", "l">>>>,
    <<<<"h", "a", "s", "k", "e", "l", "l">>,
      <<"H", "a", "s", "k", "e", "l", "l">>>>,
    <<<<"l", "u", "a">>,
      <<"L", "u", "a">>>>,
    <<<<"p", "e", "r", "l">>,
      <<"P", "e", "r", "l">>>>,
    <<<<"p", "l">>,
      <<"P", "e", "r", "l">>>>,
    <<<<"r">>,
      <<"R">>>>,
    <<<<"m", "a", "t", "l", "a", "b">>,
      <<"M", "A", "T", "L", "A", "B">>>>,
    <<<<"m">>,
      <<"M", "A", "T", "L", "A", "B">>>>,
    <<<<"s", "h">>,
      <<"B", "o", "u", "r", "n", "e", " ", "A", "g", "a", "i", "n", " ", "S", "h", "e", "l", "l", " ", "(", "b", "a", "s", "h", ")">>>>,
    <<<<"b", "a", "s", "h">>,
      <<"B", "o", "u", "r", "n", "e", " ", "A", "g", "a", "i", "n", " ", "S", "h", "e", "l", "l", " ", "(", "b", "a", "s", "h", ")">>>>,
    <<<<"s", "h", "e", "l", "l">>,
      <<"B", "o", "u", "r", "n", "e", " ", "A", "g", "a", "i", "n", " ", "S", "h", "e", "l", "l", " ", "(", "b", "a", "s", "h", ")">>>>,
    <<<<"z", "s", "h">>,
      <<"B", "o", "u", "r", "n", "e", " ", "A", "g", "a", "i", "n", " ", "S", "h", "e", "l", "l", " ", "(", "b", "a", "s", "h", ")">>>>,
    <<<<"f", "i", "s", "h">>,
      <<"f", "i", "s", "h">>>>,
    <<<<"p", "s", "1">>,
      <<"P", "o", "w", "e", "r", "S", "h", "e", "l", "l">>>>,
    <<<<"p", "o", "w", "e", "r", "s", "h", "e", "l", "l">>,
      <<"P", "o", "w", "e", "r", "S", "h", "e", "l", "l">>>>,
    <<<<"b", "a", "t">>,
      <<"B", "a", "t", "c", "h", " ", "F", "i", "l", "e">>>>,
    <<<<"b", "a", "t", "c", "h">>,
      <<"B", "a", "t", "c", "h", " ", "F", "i", "l", "e">>>>,
    <<<<"h", "t", "m", "l">>,
      <<"H", "T", "M", "L">>>>,
    <<<<"h", "t", "m">>,
      <<"H", "T", "M", "L">>>>,
    <<<<"c", "s", "s">>,
      <<"C", "S", "S">>>>,
    <<<<"s", "c", "s", "s">>,
      <<"S", "a", "s", "s">>>>,
    <<<<"s", "a", "s", "s">>,
      <<"S", "a", "s", "s">>>>,
    <<<<"l", "e", "s", "s">>,
      <<"C", "S", "S">>>>,
    <<<<"x", "m", "l">>,
      <<"X", "M", "L">>>>,
    <<<<"j", "s", "o", "n">>,
      <<"J", "S", "O", "N">>>>,
    <<<<"y", "a", "m", "l">>,
      <<"Y", "A", "M", "L">>>>,
    <<<<"y", "m", "l">>,
      <<"Y", "A", "M", "L">>>>,
    <<<<"t", "o", "m", "l">>,
      <<"T", "O", "M", "L">>>>,
    <<<<"i", "n", "i">>,
      <<"I", "N", "I">>>>,
    <<<<"c", "f", "g">>,
      <<"I", "N", "I">>>>,
    <<<<"c", "o", "n", "f">>,
      <<"I", "N", "I">>>>,
    <<<<"d", "o", "c", "k", "e", "r", "f", "i", "l", "e">>,
      <<"D", "o", "c", "k", "e", "r", "f", "i", "l", "e">>>>,
    <<<<"d", "o", "c", "k", "e", "r">>,
      <<"D", "o", "c", "k", "e", "r", "f", "i", "l", "e">>>>,
    <<<<"s", "q", "l">>,
      <<"S", "Q", "L">>>>,
    <<<<"m", "d">>,
      <<"M", "a", "r", "k", "d", "o", "w", "n">>>>,
    <<<<"m", "a", "r", "k", "d", "o", "w", "n">>,
      <<"M", "a", "r", "k", "d", "o", "w", "n">>>>,
    <<<<"t", "e", "x">>,
      <<"L", "a", "T", "e", "X">>>>,
    <<<<"l", "a", "t", "e", "x">>,
      <<"L", "a", "T", "e", "X">>>>,
    <<<<"v", "i", "m">>,
      <<"V", "i", "m", "L">>>>,
    <<<<"m", "a", "k", "e">>,
      <<"M", "a", "k", "e", "f", "i", "l", "e">>>>,
    <<<<"m", "a", "k", "e", "f", "i", "l", "e">>,
      <<"M", "a", "k", "e", "f", "i", "l", "e">>>>,
    <<<<"c", "m", "a", "k", "e">>,
      <<"C", "M", "a", "k", "e">>>>,
    <<<<"g", "r", "a", "d", "l", "e">>,
      <<"G", "r", "a", "d", "l", "e">>>>,
    <<<<"d", "a", "r", "t">>,
      <<"D", "a", "r", "t">>>>,
    <<<<"e", "l", "m">>,
      <<"E", "l", "m">>>>,
    <<<<"e", "r", "l", "a", "n", "g">>,
      <<"E", "r", "l", "a", "n", "g">>>>,
    <<<<"e", "r", "l">>,
      <<"E", "r", "l", "a", "n", "g">>>>,
    <<<<"e", "l", "i", "x", "i", "r">>,
      <<"E", "l", "i", "x", "i", "r">>>>,
    <<<<"e", "x">>,
      <<"E", "l", "i", "x", "i", "r">>>>,
    <<<<"f", "s", "h", "a", "r", "p">>,
      <<"F", "#">>>>,
    <<<<"f", "s">>,
      <<"F", "#">>>>,
    <<<<"f", "#">>,
      <<"F", "#">>>>,
    <<<<"o", "c", "a", "m", "l">>,
      <<"O", "C", "a", "m", "l">>>>,
    <<<<"m", "l">>,
      <<"O", "C", "a", "m", "l">>>>,
    <<<<"n", "i", "m">>,
      <<"N", "i", "m">>>>,
    <<<<"c", "r", "y", "s", "t", "a", "l">>,
      <<"C", "r", "y", "s", "t", "a", "l">>>>,
    <<<<"c", "r">>,
      <<"C", "r", "y", "s", "t", "a", "l">>>>,
    <<<<"d">>,
      <<"D">>>>,
    <<<<"z", "i", "g">>,
      <<"Z", "i", "g">>>>,
    <<<<"v">>,
      <<"V">>>>,
    <<<<"v", "l", "a", "n", "g">>,
      <<"V">>>>,
    <<<<"a", "s", "s", "e", "m", "b", "l", "y">>,
      <<"A", "s", "s", "e", "m", "b", "l", "y", " ", "x", "8", "6", "_", "6", "4">>>>,
    <<<<"a", "s", "m">>,
      <<"A", "s", "s", "e", "m", "b", "l", "y", " ", "x", "8", "6", "_", "6", "4">>>>,
    <<<<"d", "i", "f", "f">>,
      <<"D", "i", "f", "f">>>>,
    <<<<"p", "a", "t", "c", "h">>,
      <<"D", "i", "f", "f">>>>,
    <<<<"l", "o", "g">>,
      <<"L", "o", "g">>>>,
    <<<<"t", "e", "x", "t">>,
      <<"P", "l", "a", "i", "n", " ", "T", "e", "x", "t">>>>,
    <<<<"t", "x", "t">>,
      <<"P", "l", "a", "i", "n", " ", "T", "e", "x", "t">>>> }

\* Lines 518-577: mapped_lang, "" for the wildcard arm.
mapped_lang(lang_lower) ==
  IF \E arm \in AliasTable : arm[1] = lang_lower
  THEN (CHOOSE arm \in AliasTable : arm[1] = lang_lower)[2]
  ELSE <<>>

\* find_syntax_for_language with line 585 replaced by a failure: no
\* grammar when the three lookups find none.
find_syntax_or_none(lang) ==
  LET lang_lower == LowerString(lang)
  IN  IF find_syntax_by_name(lang_lower) # NoSyntax
      THEN find_syntax_by_name(lang_lower)
      ELSE IF find_syntax_by_extension(lang_lower) # NoSyntax
      THEN find_syntax_by_extension(lang_lower)
      ELSE IF mapped_lang(lang_lower) # <<>>
      THEN find_syntax_by_name(mapped_lang(lang_lower))
      ELSE NoSyntax

\* Lines 507-586.
find_syntax_for_language(lang) ==
  LET lang_lower == LowerString(lang)
  IN  IF find_syntax_by_name(lang_lower) # NoSyntax
      THEN find_syntax_by_name(lang_lower)
      ELSE IF find_syntax_by_extension(lang_lower) # NoSyntax
      THEN find_syntax_by_extension(lang_lower)
      ELSE IF /\ mapped_lang(lang_lower) # <<>>
              /\ find_syntax_by_name(mapped_lang(lang_lower)) # NoSyntax
      THEN find_syntax_by_name(mapped_lang(lang_lower))
      ELSE find_syntax_plain_text

\* as_24_bit_terminal_escaped(ranges, false) of a line in one style range:
\* the foreground colour of the theme, then the text.
ThemeForeground ==
  <<ESC, "[", "3", "8", ";", "2", ";", "1", "9", "2", ";",
    "1", "9", "7", ";", "2", "0", "6", "m">>

\* Lines 620-622: highlight_line yields the (style, text) ranges of a
\* line, none for an empty line.  The code lines of the model are plain
\* words, which every grammar of SyntaxSet leaves in one range in the
\* foreground colour of the theme; the plain-text grammar does so for
\* every line that is not empty.
HighlightRanges(syntax, line) ==
  IF line = <<>> THEN <<>>
  ELSE <<[style |-> ThemeForeground, text |-> line]>>

\* Lines 619-628: one line of a code block: kept as it is when there is
\* no range, else each range written as its colour code and its text.
HighlightLine(syntax, line) ==
  LET ranges == HighlightRanges(syntax, line)
  IN  IF ranges = <<>> THEN line
      ELSE Flatten([k \in 1..Len(ranges) |-> ranges[k].style \o ranges[k].text], <<>>)

\* Lines 614-630: code.lines() highlighted with the grammar of the
\* language tag and joined again.
HighlightCode(code, lang) ==
  LET ls == Lines(code)
      syntax == find_syntax_for_language(lang)
  IN  Flatten([k \in 1..Len(ls) |-> HighlightLine(syntax, ls[k])], <<"\n">>)

\* --------------------------------------------------- analyze_commands: text

BLUE == <<ESC, "[", "3", "4", "m">>
YELLOW == <<ESC, "[", "3", "3", "m">>
RED == <<ESC, "[", "3", "1", "m">>

\* Line 235: let mut suggestion = None.
NoSuggestion == [some |-> FALSE, value |-> <<>>]

\* The literal of both "did you mean" patterns, matched under (?i).
DidYouMean == <<"d", "i", "d", " ", "y", "o", "u", " ", "m", "e", "a", "n">>

\* pat at index p of s, letter case ignored.
StartsAtNoCase(s, p, pat) ==
  /\ p + Len(pat) - 1 <= Len(s)
  /\ LowerString(SubSeq(s, p, p + Len(pat) - 1)) = LowerString(pat)

\* (?m)^ and (?m)$ before the character at index p.
LineStartAt(s, p) == p = 1 \/ s[p - 1] = "\n"
LineEndAt(s, p) == p = Len(s) + 1 \/ s[p] = "\n"

\* The classes [:\s`*] and [`*\s], and the negated class of the capture.
SuggestionLead == {":", BACKTICK, "*"} \cup Whitespace
SuggestionTail == {BACKTICK, "*"} \cup Whitespace
SuggestionStops == {BACKTICK, "*", "\n", "\r"}

\* The number of characters from index p on that are not in class.
RunLengthNot(s, p, class) ==
  LET stops == {q \in p..Len(s) : s[q] \in class}
  IN  IF stops = {} THEN Len(s) - p + 1
      ELSE (CHOOSE q \in stops : \A r \in stops : q <= r) - p

\* [`*\s]*$ from index b: the indices one past a tail that ends its line.
SuggestionTailEnds(s, b) ==
  {c \in b..(b + RunLength(s, b, SuggestionTail)) : LineEndAt(s, c)}

\* ([^`*\n\r]+?)[`*\s]*$ with the capture starting at index a: the indices
\* one past a capture that lets the rest match.
SuggestionBodyEnds(s, a) ==
  {b \in (a + 1)..(a + RunLengthNot(s, a, SuggestionStops)) :
     SuggestionTailEnds(s, b) # {}}

\* suggestion_capture_regex tried at index p.  The lead is greedy, the
\* capture lazy, the tail greedy, and the engine backtracks in that order:
\* the longest lead that lets the rest match, then the shortest capture,
\* then the longest tail.
SuggestionCaptureAt(s, p) ==
  IF ~(LineStartAt(s, p) /\ StartsAtNoCase(s, p, DidYouMean)) THEN NoMatch
  ELSE LET q == p + Len(DidYouMean)
           leads == {a \in q..(q + RunLength(s, q, SuggestionLead)) :
                       SuggestionBodyEnds(s, a) # {}}
       IN  IF leads = {} THEN NoMatch
           ELSE LET a == CHOOSE x \in leads : \A y \in leads : y <= x
                    bs == SuggestionBodyEnds(s, a)
                    b == CHOOSE x \in bs : \A y \in bs : x <= y
                    cs == SuggestionTailEnds(s, b)
                    c == CHOOSE x \in cs : \A y \in cs : y <= x
                IN  [last |-> c - 1, cap |-> SubSeq(s, a, b - 1)]

\* Lines 237-241: captures() is the leftmost match of the text; the
\* suggestion is its capture, trimmed.
SuggestionCapture(s) ==
  LET starts == {p \in 1..Len(s) : SuggestionCaptureAt(s, p).last > 0}
  IN  IF starts = {} THEN NoSuggestion
      ELSE LET p == CHOOSE x \in starts : \A y \in starts : x <= y
           IN  [some |-> TRUE, value |-> Trim(SuggestionCaptureAt(s, p).cap)]

\* cleanup_did_you_mean_regex (?im)^did you mean[:\s`*].*$ tried at index
\* p: the index one past the match, 0 when there is none.  The dot stops
\* at the next "\n".
CleanupMatchEnd(s, p) ==
  LET q == p + Len(DidYouMean)
  IN  IF /\ LineStartAt(s, p) /\ StartsAtNoCase(s, p, DidYouMean)
         /\ q <= Len(s) /\ s[q] \in SuggestionLead
      THEN LET nl == FindFrom(s, q + 1, <<"\n">>)
           IN  IF nl = 0 THEN Len(s) + 1 ELSE nl
      ELSE 0

RECURSIVE CleanupFrom(_, _)
CleanupFrom(s, p) ==
  IF p > Len(s) THEN <<>>
  ELSE LET e == CleanupMatchEnd(s, p)
       IN  IF e > 0 THEN CleanupFrom(s, e)
           ELSE <<s[p]>> \o CleanupFrom(s, p + 1)

\* Lines 243-246: every match of the cleanup regex replaced by "".
CleanupDidYouMean(s) == CleanupFrom(s, 1)

RECURSIVE ReplaceNoCaseFrom(_, _, _, _)
\* Regex (?i)pat, replace_all by rep; an empty pat changes nothing when
\* rep is empty.
ReplaceNoCaseFrom(s, p, pat, rep) ==
  IF p > Len(s) \/ pat = <<>> THEN Suffix(s, p)
  ELSE IF StartsAtNoCase(s, p, pat)
       THEN rep \o ReplaceNoCaseFrom(s, p + Len(pat), pat, rep)
       ELSE <<s[p]>> \o ReplaceNoCaseFrom(s, p + 1, pat, rep)

\* Lines 248-254: the suggestion, if there is one, removed from the text
\* wherever it occurs, in any letter case.
RemoveSuggestion(s, sugg) ==
  IF sugg.some THEN ReplaceNoCaseFrom(s, 1, sugg.value, <<>>) ELSE s

RECURSIVE CollapseFrom(_, _)
CollapseFrom(s, p) ==
  IF p > Len(s) THEN <<>>
  ELSE LET n == RunLength(s, p, {"\n"})
       IN  IF n >= 3 THEN <<"\n", "\n">> \o CollapseFrom(s, p + n)
           ELSE <<s[p]>> \o CollapseFrom(s, p + 1)

\* Lines 256-261: \n{3,} replaced by "\n\n", the result trimmed.
CollapseNewlines(s) == Trim(CollapseFrom(s, 1))

\* Lines 237-261: the text handed to convert_markdown_to_ansi.
CleanedText(text) ==
  CollapseNewlines(RemoveSuggestion(CleanupDidYouMean(text), SuggestionCapture(text)))

\* Lines 265-288: the two section titles recoloured, in any letter case.
RecolourTitles(s) ==
  ReplaceNoCaseFrom(
    ReplaceNoCaseFrom(s, 1, <<"A", "n", "a", "l", "y", "s", "i", "s", ":">>, <<"\n">> \o BLUE \o <<"A", "n", "a", "l", "y", "s", "i", "s", ":">> \o RESET),
    1, <<"N", "e", "x", "t", " ", "S", "t", "e", "p", "s", ":">>, <<"\n", "\n">> \o YELLOW \o <<"N", "e", "x", "t", " ", "S", "t", "e", "p", "s", ":">> \o RESET)

\* Lines 290-302: what is pushed onto the text when there is a suggestion.
Trailer(sugg) ==
  <<"\n", "\n", "\n">> \o RED \o <<"D", "i", "d", " ", "y", "o", "u", " ", "m", "e", "a", "n", ":">> \o RESET \o <<"\n">> \o Trim(sugg)

\* ------------------------------------------------------------ display_diff

\* Line 120, and the two lengths of the truncation at lines 138-139.
preview_lines == 5
TruncateOver == 60
TruncateKeep == 57

RECURSIVE TokenizeLinesFrom(_, _, _)
\* TextDiff::from_lines splits a text into lines that keep their
\* terminator: "\n", "\r\n" or a lone "\r"; an unterminated rest is a line.
TokenizeLinesFrom(s, p, cur) ==
  IF p > Len(s) THEN (IF cur = <<>> THEN <<>> ELSE <<cur>>)
  ELSE IF s[p] = "\r" /\ p < Len(s) /\ s[p + 1] = "\n"
       THEN <<cur \o <<"\r", "\n">>>> \o TokenizeLinesFrom(s, p + 2, <<>>)
       ELSE IF s[p] \in {"\r", "\n"}
            THEN <<Append(cur, s[p])>> \o TokenizeLinesFrom(s, p + 1, <<>>)
            ELSE TokenizeLinesFrom(s, p + 1, Append(cur, s[p]))

TokenizeLines(s) == TokenizeLinesFrom(s, 1, <<>>)

\* One record of diff.iter_changes: ChangeTag and value.
Change(tag, value) == [tag |-> tag, value |-> value]

RECURSIVE EditScripts(_, _, _, _)
\* Every sequence of Equal, Delete and Insert records that turns the lines
\* old[i..] into the lines new[j..]: Equal takes the same line from both,
\* Delete a line of old, Insert a line of new.
EditScripts(old, new, i, j) ==
  IF i > Len(old) /\ j > Len(new) THEN {<<>>}
  ELSE (IF i <= Len(old)
        THEN {<<Change("Delete", old[i])>> \o t : t \in EditScripts(old, new, i + 1, j)}
        ELSE {})
       \cup
       (IF j <= Len(new)
        THEN {<<Change("Insert", new[j])>> \o t : t \in EditScripts(old, new, i, j + 1)}
        ELSE {})
       \cup
       (IF i <= Len(old) /\ j <= Len(new) /\ old[i] = new[j]
        THEN {<<Change("Equal", old[i])>> \o t : t \in EditScripts(old, new, i + 1, j + 1)}
        ELSE {})

\* A diff that reports a replaced line by its new version only: the
\* shortest scripts without their Delete records.
TextDiffInsertsOnly(original, new) ==
  LET all == EditScripts(TokenizeLines(original), TokenizeLines(new), 1, 1)
      Kept(c) == c.tag # "Delete"
  IN  {SelectSeq(t, Kept) : t \in {t \in all : \A u \in all : Len(t) <= Len(u)}}

\* A diff that rewrites the text: every old line deleted, every new line
\* inserted.
TextDiffRewriteAll(original, new) ==
  LET old == TokenizeLines(original)
      lines == TokenizeLines(new)
  IN  {[k \in 1..Len(old) |-> Change("Delete", old[k])]
         \o [k \in 1..Len(lines) |-> Change("Insert", lines[k])]}

\* TextDiff::from_lines(original, new) runs the Myers algorithm, which
\* yields a shortest edit script.  Which of the shortest scripts it yields
\* is left open here: every one of them is an outcome.
TextDiffFromLines(original, new) ==
  LET all == EditScripts(TokenizeLines(original), TokenizeLines(new), 1, 1)
  IN  {t \in all : \A u \in all : Len(t) <= Len(u)}

\* The number of records of changes that carry tag.
CountTag(changes, tag) ==
  Cardinality({k \in 1..Len(changes) : changes[k].tag = tag})

\* str::trim_end()
TrimEnd(s) ==
  LET keep == {k \in 1..Len(s) : s[k] \notin Whitespace}
  IN  IF keep = {} THEN <<>>
      ELSE SubSeq(s, 1, CHOOSE k \in keep : \A j \in keep : j <= k)

\* Lines 137-142 and 152-157: the line shown for a changed record.
Truncated(value) ==
  LET line == TrimEnd(value)
  IN  IF Len(line) > TruncateOver
      THEN SubSeq(line, 1, TruncateKeep) \o <<".", ".", ".">>
      ELSE line

RECURSIVE PreviewFrom(_, _, _)
\* Lines 124-166: the records from index k on, shown is the value of
\* shown_lines; the title is printed before the first record shown.
PreviewFrom(changes, k, shown) ==
  IF k > Len(changes) \/ shown >= preview_lines THEN <<>>
  ELSE IF changes[k].tag = "Equal" THEN PreviewFrom(changes, k + 1, shown)
       ELSE (IF shown = 0 THEN <<[kind |-> "Key changes:"]>> ELSE <<>>)
            \o <<[kind |-> changes[k].tag, text |-> Truncated(changes[k].value)]>>
            \o PreviewFrom(changes, k + 1, shown + 1)

\* The value of shown_lines after the loop of lines 124-166.
ShownLines(changes) ==
  Cardinality({k \in 1..Len(PreviewFrom(changes, 1, 0)) :
                 PreviewFrom(changes, 1, 0)[k].kind # "Key changes:"})

\* A summary line that states the number of all changes.
PrintedTotalInSummary(changes) ==
  LET additions == CountTag(changes, "Insert")
      deletions == CountTag(changes, "Delete")
  IN  <<[kind |-> "totals", additions |-> additions, deletions |-> deletions]>>
      \o PreviewFrom(changes, 1, 0)
      \o (IF additions + deletions > preview_lines
          THEN <<[kind |-> "more", count |-> additions + deletions]>>
          ELSE <<>>)

\* Lines 115-176: everything display_diff prints for a diff.
Printed(changes) ==
  LET additions == CountTag(changes, "Insert")
      deletions == CountTag(changes, "Delete")
  IN  <<[kind |-> "totals", additions |-> additions, deletions |-> deletions]>>
      \o PreviewFrom(changes, 1, 0)
      \o (IF additions + deletions > preview_lines
          THEN <<[kind |-> "more",
                  count |-> additions + deletions - ShownLines(changes)]>>
          ELSE <<>>)

\* ---------------------------------------------- write_or_edit_file: text

\* Whether s ends with pat.
EndsWith(s, pat) == StartsAt(s, Len(s) - Len(pat) + 1, pat)

\* Lines 389-395: the reply trimmed, its leading fence stripped, then its
\* trailing fence, then trimmed again; where a strip finds nothing to
\* strip, unwrap_or puts the whole untrimmed reply back.
CleanedContent(file_content) ==
  LET trimmed == Trim(file_content)
      no_prefix == IF StartsAt(trimmed, 1, FENCE)
                   THEN Suffix(trimmed, Len(FENCE) + 1)
                   ELSE file_content
      no_suffix == IF EndsWith(no_prefix, FENCE)
                   THEN SubSeq(no_prefix, 1, Len(no_prefix) - Len(FENCE))
                   ELSE file_content
  IN  Trim(no_suffix)

ContentDiffersUntrimmed(original, cleaned) == original # cleaned

\* Line 397: original_content.trim() != cleaned_content.trim().
ContentDiffers(original, cleaned) == Trim(original) # Trim(cleaned)

\* One thing the call did that can be seen from outside: a diff printed,
\* a message printed, the file written.
Effect(op, original, content) ==
  [op |-> op, original |-> original, content |-> content]

\* ------------------------------------------------ history: the last commands

\* A Result: Ok(value) or Err(_).
Ok(value) == [ok |-> TRUE, value |-> value]
Err == [ok |-> FALSE, value |-> <<>>]

\* A history file that exists: whether fs::read succeeds on it, and the
\* lines of its content.
HistoryFile(readable, lines) == [readable |-> readable, lines |-> lines]

\* history.rs line 156: the commands a history keeps.
KeepsCommand(command) ==
  /\ command # <<>>
  /\ command # <<"h", "u", "h">>
  /\ command # <<"w", "u", "t">>
  /\ ~StartsAt(command, 1, <<"h", "i", "s", "t", "o", "r", "y">>)

\* history.rs lines 152-170, parse_bash_history: the lines are read from
\* the last one, trimmed, and pushed until count are there; the result is
\* reversed into the order of the file.
ParseBashHistory(lines, count) ==
  LET kept == SelectSeq([k \in 1..Len(lines) |-> Trim(lines[k])], KeepsCommand)
      n == IF count = 0 THEN 1 ELSE count
  IN  IF Len(kept) <= n THEN kept
      ELSE SubSeq(kept, Len(kept) - n + 1, Len(kept))

\* history.rs lines 100-119, read_history_file, for a content that has
\* neither the marks of a zsh history nor those of a fish history.
ReadHistoryFile(file, count) ==
  IF ~file.readable THEN Err ELSE Ok(ParseBashHistory(file.lines, count))

\* history.rs lines 21-45, get_last_commands: the commands of the first
\* file that gives some; Err when no file does.
GetLastCommands(files, count) ==
  LET found == {k \in 1..Len(files) :
                  /\ ReadHistoryFile(files[k], count).ok
                  /\ ReadHistoryFile(files[k], count).value # <<>>}
  IN  IF found = {} THEN Err
      ELSE ReadHistoryFile(files[CHOOSE k \in found : \A j \in found : k <= j],
                           count)

\* main.rs line 41: get_last_commands(2).
HistoryCount == 2

\* main.rs line 19: the number of frames of the spinner.
FramesLen == 10

\* ------------------------------------------------- clean_prompt: text

BACKSLASH == "\\"

RECURSIVE RemoveEscapesFrom(_, _)
RemoveEscapesFrom(s, p) ==
  IF p > Len(s) THEN <<>>
  ELSE IF StartsAt(s, p, <<BACKSLASH, "[">>) \/ StartsAt(s, p, <<BACKSLASH, "]">>)
       THEN RemoveEscapesFrom(s, p + 2)
       ELSE <<s[p]>> \o RemoveEscapesFrom(s, p + 1)

\* prompt.rs line 64, 66: re_escapes.replace_all(s, ""), one left-to-right
\* pass that drops every \[ and every \].
RemoveEscapes(s) == RemoveEscapesFrom(s, 1)

\* prompt.rs lines 62-67: the pass of re_ansi, then the pass of re_escapes
\* on its result.
clean_prompt(p) == RemoveEscapes(StripAnsi(p))

\* ------------------------------------------------------------------ state

VARIABLES
  w_text,      \* wrap_text: the argument text
  w_max,       \* wrap_text: the argument max_width
  w_indent,    \* wrap_text: the argument current_indent
  w_out,       \* wrap_text: the outcome of the call
  w_pc,        \* wrap_text: "call" before the call, "done" after it
  w_again,     \* wrap_text: the outcome of wrapping w_out once more
  s_in,        \* the stripper: the string it is first applied to
  s_out,       \* the stripper: the results of its successive applications
  md_text,                \* convert_markdown_to_ansi: the argument text
  md_lines,               \* the lines of text.lines() not yet read
  result_lines,
  current_list_indent,
  in_next_steps_section,
  in_code_block,
  code_block_lang,
  code_block_content,
  md_pc,                  \* "loop" in the for loop, "done" after the return
  md_result,              \* the string returned
  md_last,                \* history: the line the loop read last, the state
                          \* and list context it was read in, and what it
                          \* pushed onto result_lines
  d_original,        \* display_diff: the argument original
  d_new,             \* display_diff: the argument new
  d_changes,         \* display_diff: the records of diff.iter_all_changes()
  total_additions,
  total_deletions,
  shown_lines,
  d_printed,         \* display_diff: the preview lines printed, in order
  d_pc,              \* display_diff: "call" before the call, "done" after it
  l_lang,            \* find_syntax_for_language: the argument lang
  l_syntax,          \* find_syntax_for_language: the grammar returned
  l_pc,              \* "call" before the call, "done" after it
  gemini_text,       \* analyze_commands: the text of the reply (line 221)
  suggestion,        \* analyze_commands: the Option<String> of line 235
  an_result,         \* analyze_commands: the text returned
  an_pc,             \* analyze_commands: "reply", "convert", "done"
  fs_file,           \* the file at file_path: whether it exists, its content
  file_exists,       \* write_or_edit_file: the local of line 308
  original_content,  \* write_or_edit_file: the local of line 309
  cleaned_content,   \* write_or_edit_file: the local of line 389
  f_log,             \* history: what the call has printed and written, in order
  f_pc,              \* "call", "await", "decided", "done", "err"
  handler,           \* main: "wut", "write" or "query", the handler called
  history_files,     \* the history files that exist, in the order searched
  h_reply,           \* the handler: what the call of the client returned
  h_left,            \* the handler: the writes of the result still to do
  h_pc,              \* the handler: "start", "spawn", "call", "called",
                     \* "send", "join", "print", "done", "panic"
  tx_sent,           \* the oneshot channel: whether () was sent
  sent_at,           \* history: where the spinner was when () was sent
  sp_pc,             \* loading_animation: "none", "spawned", "loop",
                     \* "break", "finished"
  sp_i,              \* loading_animation: the local i
  term,              \* history: the writes to the terminal, in order
  prompt,            \* clean_prompt: the argument
  p_out,             \* clean_prompt: the string returned
  p_pc               \* clean_prompt: "call" before the call, "done" after

wrapVars == <<w_text, w_max, w_indent, w_out, w_pc, w_again>>
stripVars == <<s_in, s_out>>
mdVars ==
  <<md_text, md_lines, result_lines, current_list_indent, in_next_steps_section,
    in_code_block, code_block_lang, code_block_content, md_pc, md_result, md_last>>
diffVars ==
  <<d_original, d_new, d_changes, total_additions, total_deletions,
    shown_lines, d_printed, d_pc>>
langVars == <<l_lang, l_syntax, l_pc>>
anVars == <<gemini_text, suggestion, an_result, an_pc>>
fileVars ==
  <<fs_file, file_exists, original_content, cleaned_content, f_log, f_pc>>
spinVars ==
  <<handler, history_files, h_reply, h_left, h_pc, tx_sent, sent_at, sp_pc,
    sp_i, term>>
promptVars == <<prompt, p_out, p_pc>>
ioVars == <<fileVars, spinVars, promptVars>>
vars == <<wrapVars, stripVars, mdVars, diffVars, langVars, anVars, ioVars>>

NoOutcome == [kind |-> "none", value |-> <<>>]

\* The values of the components a specification does not exercise.
WrapIdle ==
  /\ w_text = <<>> /\ w_max = 0 /\ w_indent = 0
  /\ w_out = NoOutcome /\ w_pc = "idle" /\ w_again = NoOutcome
StripIdle == s_in = <<>> /\ s_out = <<>>
DiffIdle ==
  /\ d_original = <<>> /\ d_new = <<>> /\ d_changes = <<>>
  /\ total_additions = 0 /\ total_deletions = 0 /\ shown_lines = 0
  /\ d_printed = <<>> /\ d_pc = "idle"
LangIdle == l_lang = <<>> /\ l_syntax = NoSyntax /\ l_pc = "idle"
AnIdle ==
  /\ gemini_text = <<>> /\ suggestion = NoSuggestion
  /\ an_result = <<>> /\ an_pc = "idle"

\* A path no file is at, and a regular file of a given content.
NoFile == [exists |-> FALSE, content |-> <<>>]
File(content) == [exists |-> TRUE, content |-> content]

FileIdle ==
  /\ fs_file = NoFile /\ file_exists = FALSE /\ original_content = <<>>
  /\ cleaned_content = <<>> /\ f_log = <<>> /\ f_pc = "idle"
SpinIdle ==
  /\ handler = "none" /\ history_files = <<>> /\ h_reply = "none"
  /\ h_left = 0 /\ h_pc = "idle" /\ tx_sent = FALSE /\ sent_at = "none"
  /\ sp_pc = "none" /\ sp_i = 0 /\ term = <<>>
PromptIdle == prompt = <<>> /\ p_out = <<>> /\ p_pc = "idle"
IoIdle == FileIdle /\ SpinIdle /\ PromptIdle

NoLine ==
  [kind |-> "none", line |-> <<>>, indent_before |-> 0,
   next_steps_before |-> FALSE, wrap_indent |-> 0, lang |-> <<>>,
   body |-> <<>>, pushed |-> FALSE, out |-> <<>>]

\* Lines 589-603: the locals of convert_markdown_to_ansi before the loop.
MdStart ==
  /\ result_lines = <<>>
  /\ current_list_indent = 0
  /\ in_next_steps_section = FALSE
  /\ in_code_block = FALSE
  /\ code_block_lang = <<>>
  /\ code_block_content = <<>>
  /\ md_result = <<>>
  /\ md_last = NoLine

MdIdle == md_text = <<>> /\ md_lines = <<>> /\ md_pc = "idle" /\ MdStart

\* ------------------------------------------------- specification: wrapper

WrapAlphabet == {"a", " ", ESC, "[", "m"}

InitWrap ==
  /\ w_text \in StringsUpTo(WrapAlphabet, MaxWrapLen)
  /\ w_max \in 0..MaxWidth
  /\ w_indent \in 0..MaxIndent
  /\ w_out = NoOutcome
  /\ w_pc = "call"
  /\ w_again = NoOutcome
  /\ StripIdle
  /\ MdIdle
  /\ DiffIdle
  /\ LangIdle
  /\ AnIdle
  /\ IoIdle

\* One call wrap_text(w_text, w_max, w_indent).
CallWrapText ==
  /\ w_pc = "call"
  /\ w_out' \in WrapOutcomes(w_text, w_max, w_indent)
  /\ w_pc' = "done"
  /\ UNCHANGED <<w_text, w_max, w_indent, w_again, stripVars, mdVars, diffVars,
                 langVars, anVars,
                 ioVars>>

\* A second call, wrap_text(w_out, w_max, w_indent), on the string the
\* first call returned.
RewrapText ==
  /\ w_pc = "done"
  /\ w_out.kind = "ok"
  /\ w_again' \in WrapOutcomes(w_out.value, w_max, w_indent)
  /\ w_pc' = "again"
  /\ UNCHANGED <<w_text, w_max, w_indent, w_out, stripVars, mdVars, diffVars,
                 langVars, anVars,
                 ioVars>>

NextWrap == CallWrapText \/ RewrapText

SpecWrap == InitWrap /\ [][NextWrap]_vars

\* --------------------------- specification: wrapper, text outside ASCII

MeasureAlphabet == {"a", NonAscii, " ", ESC, "["}

InitMeasure ==
  /\ w_text \in StringsUpTo(MeasureAlphabet, MaxWrapLen)
  /\ w_max \in 0..MaxWidth
  /\ w_indent \in 0..MaxIndent
  /\ w_out = NoOutcome
  /\ w_pc = "call"
  /\ w_again = NoOutcome
  /\ StripIdle
  /\ MdIdle
  /\ DiffIdle
  /\ LangIdle
  /\ AnIdle
  /\ IoIdle

SpecMeasure == InitMeasure /\ [][NextWrap]_vars

\* ------------------------------------------------ specification: stripper

StripAlphabet == {ESC, "[", "1", "m", "a"}

InitStrip ==
  /\ s_in \in StringsUpTo(StripAlphabet, MaxStripLen)
  /\ s_out = <<>>
  /\ WrapIdle
  /\ MdIdle
  /\ DiffIdle
  /\ LangIdle
  /\ AnIdle
  /\ IoIdle

\* ansi_regex.replace_all applied to the input, then to its own result.
ApplyStrip ==
  /\ Len(s_out) < 2
  /\ s_out' = Append(s_out, StripAnsi(IF s_out = <<>> THEN s_in
                                      ELSE s_out[Len(s_out)]))
  /\ UNCHANGED <<s_in, wrapVars, mdVars, diffVars, langVars, anVars,
                 ioVars>>

NextStrip == ApplyStrip

SpecStrip == InitStrip /\ [][NextStrip]_vars

\* ------------------------------------- convert_markdown_to_ansi: the loop

\* What the loop records of the line it has just read: the list context,
\* the language tag and the buffered body are the ones before the line.
Read(kind, line, wrap_indent, pushed, out) ==
  [kind |-> kind, line |-> line, indent_before |-> current_list_indent,
   next_steps_before |-> in_next_steps_section, wrap_indent |-> wrap_indent,
   lang |-> code_block_lang, body |-> code_block_content,
   pushed |-> pushed, out |-> out]

\* Lines 606-611 and 633-640: a fence line outside a code block opens one.
FenceOpen ==
  /\ md_pc = "loop" /\ md_lines # <<>>
  /\ StartsAt(Head(md_lines), 1, FENCE)
  /\ ~in_code_block
  /\ in_code_block' = TRUE
  /\ code_block_lang' =
       (LET tag == Trim(TrimStartMatches(Head(md_lines), FENCE))
        IN  IF tag = <<>> THEN <<"t", "e", "x", "t">> ELSE tag)
  /\ md_last' = Read("open", Head(md_lines), 0, FALSE, <<>>)
  /\ md_lines' = Tail(md_lines)
  /\ UNCHANGED <<md_text, result_lines, current_list_indent, in_next_steps_section,
                 code_block_content, md_pc, md_result, wrapVars, stripVars,
                 diffVars, langVars, anVars,
                 ioVars>>

\* Lines 606-632 and 640: a fence line inside a code block closes it; the
\* body, unless it is blank, is highlighted and pushed as one entry.
FenceClose ==
  /\ md_pc = "loop" /\ md_lines # <<>>
  /\ StartsAt(Head(md_lines), 1, FENCE)
  /\ in_code_block
  /\ in_code_block' = FALSE
  /\ code_block_content' = <<>>
  /\ LET code == Flatten(code_block_content, <<"\n">>)
     IN  IF ~IsBlank(code)
         THEN /\ result_lines' =
                   Append(result_lines, HighlightCode(code, code_block_lang))
              /\ md_last' = Read("close", Head(md_lines), 0, TRUE,
                                 HighlightCode(code, code_block_lang))
         ELSE /\ result_lines' = result_lines
              /\ md_last' = Read("close", Head(md_lines), 0, FALSE, <<>>)
  /\ md_lines' = Tail(md_lines)
  /\ UNCHANGED <<md_text, current_list_indent, in_next_steps_section,
                 code_block_lang, md_pc, md_result, wrapVars, stripVars,
                 diffVars, langVars, anVars,
                 ioVars>>

\* Lines 643-646: any other line inside a code block is buffered.
CodeLine ==
  /\ md_pc = "loop" /\ md_lines # <<>>
  /\ ~StartsAt(Head(md_lines), 1, FENCE)
  /\ in_code_block
  /\ code_block_content' = Append(code_block_content, Head(md_lines))
  /\ md_last' = Read("code", Head(md_lines), 0, FALSE, <<>>)
  /\ md_lines' = Tail(md_lines)
  /\ UNCHANGED <<md_text, result_lines, current_list_indent, in_next_steps_section,
                 in_code_block, code_block_lang, md_pc, md_result, wrapVars, stripVars,
                 diffVars, langVars, anVars,
                 ioVars>>

\* Lines 648-706: a line outside a code block.
NormalLine ==
  /\ md_pc = "loop" /\ md_lines # <<>>
  /\ ~StartsAt(Head(md_lines), 1, FENCE)
  /\ ~in_code_block
  /\ LET line == Head(md_lines)
         step == ListStep(line, current_list_indent, in_next_steps_section)
         out == RenderLine(line, current_list_indent, in_next_steps_section)
     IN  /\ current_list_indent' = step.indent
         /\ in_next_steps_section' = step.next_steps
         /\ result_lines' = Append(result_lines, out)
         /\ md_last' = Read("normal", line, step.wrap_indent, TRUE, out)
  /\ md_lines' = Tail(md_lines)
  /\ UNCHANGED <<md_text, in_code_block, code_block_lang, code_block_content,
                 md_pc, md_result, wrapVars, stripVars,
                 diffVars, langVars, anVars,
                 ioVars>>

ReturnFlushesBody ==
  /\ md_pc = "loop" /\ md_lines = <<>>
  /\ md_result' = Flatten(result_lines \o code_block_content, <<"\n">>)
  /\ md_pc' = "done"
  /\ UNCHANGED <<md_text, md_lines, result_lines, current_list_indent,
                 in_next_steps_section, in_code_block, code_block_lang,
                 code_block_content, md_last, wrapVars, stripVars,
                 diffVars, langVars, anVars,
                 ioVars>>

\* Line 709: the loop is over, the pushed entries are joined and returned.
Return ==
  /\ md_pc = "loop" /\ md_lines = <<>>
  /\ md_result' = Flatten(result_lines, <<"\n">>)
  /\ md_pc' = "done"
  /\ UNCHANGED <<md_text, md_lines, result_lines, current_list_indent,
                 in_next_steps_section, in_code_block, code_block_lang,
                 code_block_content, md_last, wrapVars, stripVars,
                 diffVars, langVars, anVars,
                 ioVars>>

NextMd == FenceOpen \/ FenceClose \/ CodeLine \/ NormalLine \/ Return

\* A call convert_markdown_to_ansi(text) about to enter its loop.
MdCall(text) ==
  /\ md_text = text
  /\ md_lines = Lines(text)
  /\ md_pc = "loop"
  /\ MdStart

\* -------------------------------------- specification: the line machine

\* The lines the multi-line inputs are made of: blank, plain, indented, two
\* numbered items with prefixes of different widths, the Next Steps
\* heading, a bare fence, a fence with a tag, an ATX heading.
MdLineSet ==
  { <<>>,
    <<"a">>,
    <<" ", "a">>,
    <<"1", ".", " ", "a">>,
    <<"1", "0", ".", " ", "a">>,
    <<"N", "e", "x", "t", " ", "S", "t", "e", "p", "s", ":">>,
    FENCE,
    FENCE \o <<"p", "y">>,
    <<"#", " ", "a">> }

\* The texts of at most MaxLines lines of MdLineSet, joined by "\n".
MdTexts ==
  {Flatten(ls, <<"\n">>) : ls \in UNION {[1..k -> MdLineSet] : k \in 0..MaxLines}}

InitMd ==
  /\ \E text \in MdTexts : MdCall(text)
  /\ WrapIdle
  /\ StripIdle
  /\ DiffIdle
  /\ LangIdle
  /\ AnIdle
  /\ IoIdle

SpecMd == InitMd /\ [][NextMd]_vars

\* ------------------------------------ specification: one line of markup

InlineAlphabet == {"a", " ", "*", "_", BACKTICK}
HeadingAlphabet == {"a", " ", "#"}

\* One-line texts: every string of markup characters, every line that
\* starts with #; and two fenced blocks, one with a tag no lookup matches.
InlineTexts ==
  StringsUpTo(InlineAlphabet, MaxInlineLen)
  \cup {<<"#">> \o t : t \in StringsUpTo(HeadingAlphabet, MaxHeadingLen)}
  \cup {FENCE \o <<"\n", "a", "\n">> \o FENCE,
        FENCE \o <<"z", "o", "r", "k", "\n", "a", "\n">> \o FENCE}

InitInline ==
  /\ \E text \in InlineTexts : MdCall(text)
  /\ WrapIdle
  /\ StripIdle
  /\ DiffIdle
  /\ LangIdle
  /\ AnIdle
  /\ IoIdle

SpecInline == InitInline /\ [][NextMd]_vars

\* ---------------------------------------- specification: analyze_commands

MaxAnLines == 3

\* The lines the replies are made of: blank, a command, a numbered item, the
\* two section titles, a fence, and two "did you mean" lines that name
\* different commands.
AnLineSet ==
  { <<>>,
    <<"l", "s">>,
    <<"1", ".", " ", "c", "d">>,
    <<"A", "n", "a", "l", "y", "s", "i", "s", ":", " ", "a">>,
    <<"N", "e", "x", "t", " ", "S", "t", "e", "p", "s", ":">>,
    FENCE,
    <<"D", "i", "d", " ", "y", "o", "u", " ", "m", "e", "a", "n", ":", " ", BACKTICK, "l", "s", BACKTICK>>,
    <<"d", "i", "d", " ", "y", "o", "u", " ", "m", "e", "a", "n", ":", " ", BACKTICK, "c", "d", BACKTICK>> }

AnTexts ==
  {Flatten(ls, <<"\n">>) : ls \in UNION {[1..k -> AnLineSet] : k \in 0..MaxAnLines}}

\* The state at line 235, the reply of the model in gemini_text.
InitAnalyze ==
  /\ gemini_text \in AnTexts
  /\ suggestion = NoSuggestion
  /\ an_result = <<>>
  /\ an_pc = "reply"
  /\ MdIdle
  /\ WrapIdle
  /\ StripIdle
  /\ DiffIdle
  /\ LangIdle
  /\ IoIdle

\* Lines 235-263: the suggestion is captured, the text cleaned, and
\* convert_markdown_to_ansi is called on the cleaned text.
AnalyzeClean ==
  /\ an_pc = "reply"
  /\ suggestion' = SuggestionCapture(gemini_text)
  /\ md_text' = CleanedText(gemini_text)
  /\ md_lines' = Lines(CleanedText(gemini_text))
  /\ md_pc' = "loop"
  /\ an_pc' = "convert"
  /\ UNCHANGED <<gemini_text, an_result, result_lines, current_list_indent,
                 in_next_steps_section, in_code_block, code_block_lang,
                 code_block_content, md_result, md_last, wrapVars, stripVars,
                 diffVars, langVars,
                 ioVars>>

\* Lines 263-304: the converted text has its titles recoloured and the
\* trailer pushed, and is returned with the suggestion.
AnalyzeReturn ==
  /\ an_pc = "convert" /\ md_pc = "done"
  /\ an_result' = RecolourTitles(md_result)
                    \o (IF suggestion.some THEN Trailer(suggestion.value) ELSE <<>>)
  /\ an_pc' = "done"
  /\ UNCHANGED <<gemini_text, suggestion, mdVars, wrapVars, stripVars,
                 diffVars, langVars,
                 ioVars>>

NextAnalyze == AnalyzeClean \/ NextMd \/ AnalyzeReturn

SpecAnalyze == InitAnalyze /\ [][NextAnalyze]_vars

\* -------------------------------------------- specification: display_diff

MaxDiffLines == 3

DiffLineSet == {<<"a">>, <<"b">>}

\* Texts of at most MaxDiffLines lines, with and without a final newline.
DiffTexts ==
  LET joined == {Flatten(ls, <<"\n">>) :
                   ls \in UNION {[1..k -> DiffLineSet] : k \in 0..MaxDiffLines}}
  IN  joined \cup {t \o <<"\n">> : t \in joined}

\* The new content comes trimmed from write_or_edit_file (lines 389-395).
InitDiff ==
  /\ d_original \in DiffTexts
  /\ d_new \in {t \in DiffTexts : t = Trim(t)}
  /\ d_changes = <<>>
  /\ total_additions = 0
  /\ total_deletions = 0
  /\ shown_lines = 0
  /\ d_printed = <<>>
  /\ d_pc = "call"
  /\ WrapIdle
  /\ StripIdle
  /\ MdIdle
  /\ LangIdle
  /\ AnIdle
  /\ IoIdle

\* One call display_diff(d_original, d_new, _).
DisplayDiff ==
  /\ d_pc = "call"
  /\ \E changes \in TextDiffFromLines(d_original, d_new) :
       /\ d_changes' = changes
       /\ total_additions' = CountTag(changes, "Insert")
       /\ total_deletions' = CountTag(changes, "Delete")
       /\ shown_lines' = ShownLines(changes)
       /\ d_printed' = Printed(changes)
  /\ d_pc' = "done"
  /\ UNCHANGED <<d_original, d_new, wrapVars, stripVars, mdVars, langVars, anVars,
                 ioVars>>

NextDiff == DisplayDiff

SpecDiff == InitDiff /\ [][NextDiff]_vars

\* -------------------------------- specification: find_syntax_for_language

MaxTagLen == 3

TagAlphabet == {"r", "s", "R", "p", "y"}

\* The tags: every short string of a few letters, and tags picked for the
\* lookups they reach: the empty tag, names of grammars in several letter
\* cases, extensions, aliases of grammars in and not in the set, and tags
\* nothing matches.
Tags ==
  StringsUpTo(TagAlphabet, MaxTagLen)
  \cup { <<"t", "e", "x", "t">>, <<"t", "x", "t">>, <<"T", "X", "T">>, <<"P", "l", "a", "i", "n", " ", "T", "e", "x", "t">>, <<"z", "o", "r", "k">>,
         <<"R", "u", "s", "t">>, <<"r", "u", "s", "t">>, <<"R", "U", "S", "T">>, <<"P", "y", "t", "h", "o", "n">>, <<"p", "y", "t", "h", "o", "n">>,
         <<"P", "a", "s", "c", "a", "l">>, <<"p", "a", "s", "c", "a", "l">>, <<"p", "a", "s">>, <<"M", "a", "r", "k", "d", "o", "w", "n">>, <<"m", "a", "r", "k", "d", "o", "w", "n">>, <<"m", "d">>,
         <<"J", "a", "v", "a", "S", "c", "r", "i", "p", "t">>, <<"n", "o", "d", "e">>, <<"c", "a", "m", "l", "p", "4">>, <<"C", "a", "m", "l", "p", "4">>,
         <<"t", "s">>, <<"t", "y", "p", "e", "s", "c", "r", "i", "p", "t">>, <<"k", "o", "t", "l", "i", "n">>, <<"c", "+", "+">>, <<"t", "o", "m", "l">> }

InitResolve ==
  /\ l_lang \in Tags
  /\ l_syntax = NoSyntax
  /\ l_pc = "call"
  /\ WrapIdle
  /\ StripIdle
  /\ MdIdle
  /\ DiffIdle
  /\ AnIdle
  /\ IoIdle

\* One call find_syntax_for_language(l_lang).
Resolve ==
  /\ l_pc = "call"
  /\ l_syntax' = find_syntax_for_language(l_lang)
  /\ l_pc' = "done"
  /\ UNCHANGED <<l_lang, wrapVars, stripVars, mdVars, diffVars, anVars,
                 ioVars>>

NextResolve == Resolve

SpecResolve == InitResolve /\ [][NextResolve]_vars

\* -------------------------------------- specification: write_or_edit_file

\* The contents a file starts with.
FileTexts == DiffTexts

\* The replies of the model: a content as it is, inside a fenced block,
\* after an opening fence that is never closed, and after a space.
FileReplies ==
  FileTexts
  \cup {FENCE \o <<"\n">> \o t \o <<"\n">> \o FENCE : t \in FileTexts}
  \cup {FENCE \o t : t \in FileTexts}
  \cup {<<" ">> \o t : t \in FileTexts}

InitWrite ==
  /\ fs_file \in {NoFile} \cup {File(t) : t \in FileTexts}
  /\ file_exists = FALSE
  /\ original_content = <<>>
  /\ cleaned_content = <<>>
  /\ f_log = <<>>
  /\ f_pc = "call"
  /\ WrapIdle
  /\ StripIdle
  /\ MdIdle
  /\ DiffIdle
  /\ LangIdle
  /\ AnIdle
  /\ SpinIdle
  /\ PromptIdle

\* Lines 308-365: the file is looked up and read, the request is sent.
WriteCall ==
  /\ f_pc = "call"
  /\ file_exists' = fs_file.exists
  /\ original_content' = fs_file.content
  /\ f_pc' = "await"
  /\ UNCHANGED <<fs_file, cleaned_content, f_log, wrapVars, stripVars, mdVars,
                 diffVars, langVars, anVars,
                 spinVars, promptVars>>

\* Lines 365-387: the request fails, the status is not a success, the body
\* does not parse or has no candidate; the call returns Err.
WriteRequestFails ==
  /\ f_pc = "await"
  /\ f_pc' = "err"
  /\ UNCHANGED <<fs_file, file_exists, original_content, cleaned_content, f_log,
                 wrapVars, stripVars, mdVars, diffVars, langVars, anVars,
                 spinVars, promptVars>>

\* Lines 381-405: the reply arrives and is cleaned; the diff is displayed
\* for a file that exists and differs, a message is printed for a new file,
\* and the call returns at line 404 when nothing differs.
WriteReply ==
  /\ f_pc = "await"
  /\ \E file_content \in FileReplies :
       LET cleaned == CleanedContent(file_content)
       IN  /\ cleaned_content' = cleaned
           /\ IF file_exists /\ ContentDiffers(original_content, cleaned)
              THEN /\ \E changes \in TextDiffFromLines(original_content, cleaned) :
                        /\ d_changes' = changes
                        /\ total_additions' = CountTag(changes, "Insert")
                        /\ total_deletions' = CountTag(changes, "Delete")
                        /\ shown_lines' = ShownLines(changes)
                        /\ d_printed' = Printed(changes)
                   /\ d_original' = original_content
                   /\ d_new' = cleaned
                   /\ d_pc' = "done"
                   /\ f_log' = Append(f_log, Effect("diff", original_content, cleaned))
                   /\ f_pc' = "decided"
              ELSE /\ UNCHANGED diffVars
                   /\ IF ~file_exists
                      THEN /\ f_log' = Append(f_log, Effect("creating", <<>>, <<>>))
                           /\ f_pc' = "decided"
                      ELSE /\ f_log' = Append(f_log, Effect("no changes", <<>>, <<>>))
                           /\ f_pc' = "done"
  /\ UNCHANGED <<fs_file, file_exists, original_content, wrapVars, stripVars,
                 mdVars, langVars, anVars,
                 spinVars, promptVars>>

\* Lines 407-414: the parent directories are made and the file is written.
WriteFile ==
  /\ f_pc = "decided"
  /\ fs_file' = File(cleaned_content)
  /\ f_log' = Append(f_log, Effect("write", <<>>, cleaned_content))
  /\ f_pc' = "done"
  /\ UNCHANGED <<file_exists, original_content, cleaned_content, wrapVars,
                 stripVars, mdVars, diffVars, langVars, anVars,
                 spinVars, promptVars>>

\* Lines 407-412: create_dir_all fails, or the file cannot be opened for
\* writing; the call returns Err.
WriteFileFails ==
  /\ f_pc = "decided"
  /\ f_pc' = "err"
  /\ UNCHANGED <<fs_file, file_exists, original_content, cleaned_content, f_log,
                 wrapVars, stripVars, mdVars, diffVars, langVars, anVars,
                 spinVars, promptVars>>

NextWrite ==
  WriteCall \/ WriteRequestFails \/ WriteReply \/ WriteFile \/ WriteFileFails

SpecWrite == InitWrite /\ [][NextWrite]_vars

\* ------------------------------- specification: the handlers and the spinner

MaxFrames == 2
MaxResponseLen == 2

\* Histories: no file, a file that cannot be read, an empty file, a file
\* with nothing to keep, files with one command and with three, and an
\* empty file before a file with commands.
HistorySamples ==
  { <<>>,
    <<HistoryFile(FALSE, <<>>)>>,
    <<HistoryFile(TRUE, <<>>)>>,
    <<HistoryFile(TRUE, <<<<"h", "u", "h">>, <<" ">>, <<"h", "i", "s", "t", "o", "r", "y", " ", "1">>>>)>>,
    <<HistoryFile(TRUE, <<<<"l", "s">>>>)>>,
    <<HistoryFile(TRUE, <<<<"l", "s">>, <<"c", "d">>, <<"w", "u", "t">>, <<"p", "w", "d">>>>)>>,
    <<HistoryFile(TRUE, <<>>), HistoryFile(TRUE, <<<<"l", "s">>, <<"c", "d">>>>)>> }

\* One write to the terminal.
Out(op, n) == [op |-> op, n |-> n]

\* main() about to call one of the three handlers.
InitMain ==
  /\ handler \in {"wut", "write", "query"}
  /\ history_files \in HistorySamples
  /\ h_reply = "none"
  /\ h_left = 0
  /\ h_pc = "start"
  /\ tx_sent = FALSE
  /\ sent_at = "none"
  /\ sp_pc = "none"
  /\ sp_i = 0
  /\ term = <<>>
  /\ WrapIdle
  /\ StripIdle
  /\ MdIdle
  /\ DiffIdle
  /\ LangIdle
  /\ AnIdle
  /\ FileIdle
  /\ PromptIdle

\* main.rs lines 39-48: handle_wut_command reads the history; unwrap panics
\* on Err, an empty vector is reported and the handler returns.  The other
\* two handlers start at the client.
Start ==
  /\ h_pc = "start"
  /\ IF handler = "wut"
     THEN LET commands == GetLastCommands(history_files, HistoryCount)
          IN  IF ~commands.ok
              THEN h_pc' = "panic" /\ term' = term
              ELSE IF commands.value = <<>>
              THEN h_pc' = "done" /\ term' = Append(term, Out("no commands", 0))
              ELSE h_pc' = "spawn" /\ term' = term
     ELSE h_pc' = "spawn" /\ term' = term
  /\ UNCHANGED <<handler, history_files, h_reply, h_left, tx_sent, sent_at,
                 sp_pc, sp_i, wrapVars, stripVars, mdVars, diffVars, langVars,
                 anVars, fileVars, promptVars>>

\* main.rs lines 50-53: the channel is made, the spinner spawned, and the
\* client called.
Spawn ==
  /\ h_pc = "spawn"
  /\ sp_pc' = "spawned"
  /\ h_pc' = "call"
  /\ UNCHANGED <<handler, history_files, h_reply, h_left, tx_sent, sent_at,
                 sp_i, term, wrapVars, stripVars, mdVars, diffVars, langVars,
                 anVars, fileVars, promptVars>>

\* gemini.rs lines 397-403: write_or_edit_file prints the diff, or one of
\* its two messages, before it returns.
CallPrints ==
  /\ h_pc = "call"
  /\ handler = "write"
  /\ term' = Append(term, Out("file report", 0))
  /\ h_pc' = "called"
  /\ UNCHANGED <<handler, history_files, h_reply, h_left, tx_sent, sent_at,
                 sp_pc, sp_i, wrapVars, stripVars, mdVars, diffVars, langVars,
                 anVars, fileVars, promptVars>>

\* The number of writes of the Ok arm: main.rs lines 58-60, 82, 102-107.
OkWrites(h, response_len) ==
  IF h = "wut" THEN 2 ELSE IF h = "write" THEN 1 ELSE response_len + 1

\* main.rs lines 53, 77, 97: the call of the client returns.  Every Ok
\* return of write_or_edit_file comes after one of its prints; an Err
\* return may come before or after.
CallReturns ==
  /\ h_pc \in {"call", "called"}
  /\ \E reply \in {"Ok", "Err"}, response_len \in 0..MaxResponseLen :
       /\ (handler = "write" /\ reply = "Ok") => h_pc = "called"
       /\ h_reply' = reply
       /\ h_left' = IF reply = "Ok" THEN OkWrites(handler, response_len) ELSE 1
  /\ h_pc' = "send"
  /\ UNCHANGED <<handler, history_files, tx_sent, sent_at, sp_pc, sp_i, term,
                 wrapVars, stripVars, mdVars, diffVars, langVars, anVars,
                 fileVars, promptVars>>

\* main.rs lines 55, 64: tx.send(()).
Send ==
  /\ h_pc = "send"
  /\ tx_sent' = TRUE
  /\ sent_at' = sp_pc
  /\ h_pc' = "join"
  /\ UNCHANGED <<handler, history_files, h_reply, h_left, sp_pc, sp_i, term,
                 wrapVars, stripVars, mdVars, diffVars, langVars, anVars,
                 fileVars, promptVars>>

\* main.rs lines 56, 65: animation_handle.await completes when the task
\* of the spinner has.
Join ==
  /\ h_pc = "join"
  /\ sp_pc = "finished"
  /\ h_pc' = "print"
  /\ UNCHANGED <<handler, history_files, h_reply, h_left, tx_sent, sent_at,
                 sp_pc, sp_i, term, wrapVars, stripVars, mdVars, diffVars,
                 langVars, anVars, fileVars, promptVars>>

\* main.rs lines 58-60, 66, 82, 86, 102-107, 111: one write of the result
\* or of the error message.
PrintResult ==
  /\ h_pc = "print"
  /\ term' = Append(term, Out(IF h_reply = "Ok" THEN "result" ELSE "error", h_left))
  /\ h_left' = h_left - 1
  /\ h_pc' = IF h_left = 1 THEN "done" ELSE "print"
  /\ UNCHANGED <<handler, history_files, h_reply, tx_sent, sent_at, sp_pc,
                 sp_i, wrapVars, stripVars, mdVars, diffVars, langVars, anVars,
                 fileVars, promptVars>>

\* main.rs line 21: the spinner hides the cursor and enters its loop.
SpinHide ==
  /\ sp_pc = "spawned"
  /\ term' = Append(term, Out("hide cursor", 0))
  /\ sp_pc' = "loop"
  /\ UNCHANGED <<handler, history_files, h_reply, h_left, h_pc, tx_sent,
                 sent_at, sp_i, wrapVars, stripVars, mdVars, diffVars, langVars,
                 anVars, fileVars, promptVars>>

\* main.rs lines 24-28: the sleep completes first; a frame is printed.
SpinFrame ==
  /\ sp_pc = "loop"
  /\ sp_i < MaxFrames
  /\ term' = Append(term, Out("frame", sp_i % FramesLen))
  /\ sp_i' = sp_i + 1
  /\ UNCHANGED <<handler, history_files, h_reply, h_left, h_pc, tx_sent,
                 sent_at, sp_pc, wrapVars, stripVars, mdVars, diffVars,
                 langVars, anVars, fileVars, promptVars>>

RxNeverReady(sent) == FALSE

\* main.rs line 29: the receiver completes once () has been sent.
RxReady(sent) == sent

\* main.rs lines 29-31: the receiver completes first; the loop is left.
SpinBreak ==
  /\ sp_pc = "loop"
  /\ RxReady(tx_sent)
  /\ sp_pc' = "break"
  /\ UNCHANGED <<handler, history_files, h_reply, h_left, h_pc, tx_sent,
                 sent_at, sp_i, term, wrapVars, stripVars, mdVars, diffVars,
                 langVars, anVars, fileVars, promptVars>>

\* main.rs lines 34-37: the line is cleared, the cursor shown, and the
\* task ends.
SpinShow ==
  /\ sp_pc = "break"
  /\ term' = term \o <<Out("clear line", 0), Out("show cursor", 0)>>
  /\ sp_pc' = "finished"
  /\ UNCHANGED <<handler, history_files, h_reply, h_left, h_pc, tx_sent,
                 sent_at, sp_i, wrapVars, stripVars, mdVars, diffVars, langVars,
                 anVars, fileVars, promptVars>>

NextMain ==
  \/ Start \/ Spawn \/ CallPrints \/ CallReturns \/ Send \/ Join \/ PrintResult
  \/ SpinHide \/ SpinFrame \/ SpinBreak \/ SpinShow

SpecMain == InitMain /\ [][NextMain]_vars

\* The runtime polls a task that can make a step: the spinner when it is
\* spawned, when its receiver is ready and when it has left its loop, and
\* the handler when the task it awaits has ended.
SpecMainLive ==
  /\ SpecMain
  /\ WF_vars(SpinHide) /\ WF_vars(SpinBreak) /\ WF_vars(SpinShow)
  /\ WF_vars(Join)

\* -------------------------------------------- specification: clean_prompt

MaxPromptLen == 5

PromptAlphabet == {ESC, "[", "]", BACKSLASH, "m", "a"}

InitPrompt ==
  /\ prompt \in StringsUpTo(PromptAlphabet, MaxPromptLen)
  /\ p_out = <<>>
  /\ p_pc = "call"
  /\ WrapIdle
  /\ StripIdle
  /\ MdIdle
  /\ DiffIdle
  /\ LangIdle
  /\ AnIdle
  /\ FileIdle
  /\ SpinIdle

\* One call clean_prompt(prompt).
CleanPrompt ==
  /\ p_pc = "call"
  /\ p_out' = clean_prompt(prompt)
  /\ p_pc' = "done"
  /\ UNCHANGED <<prompt, wrapVars, stripVars, mdVars, diffVars, langVars,
                 anVars, fileVars, spinVars>>

NextPrompt == CleanPrompt

SpecPrompt == InitPrompt /\ [][NextPrompt]_vars

\* ------------------------------------------------------ claims: wrap_text

WrapDone == w_pc = "done"

\* The lines of the string wrap_text returned.
WrapOutLines == SplitNewline(w_out.value)

\* C3: for all max_width w and indent i with i >= w, wrap_text fails with
\* the InvalidWrapConfiguration error for every text, and never returns a
\* wrapped string.
C3_IndentPrecondition ==
  (WrapDone /\ w_indent >= w_max) => w_out.kind = "InvalidWrapConfiguration"

\* A line that is one word whose visible length exceeds the budget.
IsOverlongWord(line, budget) ==
  LET words == SplitWhitespace(line)
  IN  Len(words) = 1 /\ Len(StripAnsi(words[1])) > budget

\* C4: for indent i < w, every line of wrap_text(text, w, i), stripped of
\* ANSI sequences and measured with its indent prefix, has visible length
\* at most w, unless the line is a single word longer than w - i.
C4_WidthInvariant ==
  (WrapDone /\ w_out.kind = "ok" /\ w_indent < w_max) =>
    \A k \in 1..Len(WrapOutLines) :
      \/ Len(StripAnsi(WrapOutLines[k])) <= w_max
      \/ IsOverlongWord(WrapOutLines[k], w_max - w_indent)

\* C5: in the result of wrap_text(text, w, i) every line after the first
\* begins with exactly i spaces followed by a non-space character, for
\* every i >= 0 (below max_width), and the first line has no added prefix.
C5_ContinuationPrefix ==
  (WrapDone /\ w_out.kind = "ok" /\ w_indent < w_max) =>
    /\ WrapOutLines[1] = <<>> \/ WrapOutLines[1][1] \notin Whitespace
    /\ \A k \in 2..Len(WrapOutLines) :
         /\ Len(WrapOutLines[k]) > w_indent
         /\ SubSeq(WrapOutLines[k], 1, w_indent) = Spaces(w_indent)
         /\ WrapOutLines[k][w_indent + 1] # " "

\* ---------------------------------------------------- claims: the stripper

StripTwice == Len(s_out) = 2

\* Every ESC of s starts a complete sequence ESC [ (digits or ;)* letter.
NoDanglingEsc(s) == \A p \in 1..Len(s) : s[p] = ESC => AnsiMatchEnd(s, p) > 0

\* C6, as stated: for every string x, strip(strip(x)) = strip(x) and
\* visible_length(x) = visible_length(strip(x)), also when removing one
\* sequence joins the characters around it into a new sequence.
C6_StripIdempotent ==
  StripTwice => s_out[2] = s_out[1] /\ Len(s_out[2]) = Len(s_out[1])

\* C6, amended: for every string x in which every ESC starts a complete
\* sequence, strip(x) holds no ESC, strip(strip(x)) = strip(x) and
\* visible_length(x) = visible_length(strip(x)).
C6_StripIdempotentNoDanglingEsc ==
  (StripTwice /\ NoDanglingEsc(s_in)) =>
    /\ \A p \in 1..Len(s_out[1]) : s_out[1][p] # ESC
    /\ s_out[2] = s_out[1]
    /\ Len(s_out[2]) = Len(s_out[1])

\* C6, witness: a string with a complete sequence between two visible
\* characters, and no other ESC, stripped twice.
C6_Witness ==
  /\ StripTwice
  /\ NoDanglingEsc(s_in)
  /\ s_in = <<"a", ESC, "[", "1", "m", "a">>
  /\ s_out[1] = <<"a", "a">>

\* --------------------------------------- claims: convert_markdown_to_ansi

\* The loop has just read a line in the Normal state.
ReadNormal == md_last.kind = "normal"

\* Bodies of emphasis spans: plain text, no markup character, no space.
PlainSpans == {<<"a">>, <<"a", "a">>}

\* Bodies of two characters: italics_regex asks for at least two, so that
\* a one-character body is never italic; the claim is stated on the longer
\* bodies, which the regex accepts.
LongSpans == {<<"a", "a">>}

\* C1: for every Normal-state line that contains **x** or __x__ (x not
\* empty), the output holds bold-on x reset, the delimiters removed: **x**
\* is neither italic nor plain text.
C1_BoldRendered ==
  ReadNormal =>
    \A d \in {"*", "_"}, x \in PlainSpans :
      Contains(md_last.line, <<d, d>> \o x \o <<d, d>>)
        => Contains(md_last.out, BOLD \o x \o RESET)

\* The line read last is a list continuation as the claims describe it:
\* not blank, not a numbered item, not the Next Steps heading, read with an
\* active list indent.
ReadContinuation ==
  /\ ReadNormal
  /\ md_last.indent_before > 0
  /\ ~IsBlank(md_last.line)
  /\ NumPartLen(md_last.line) = 0
  /\ ~NextStepsMatch(md_last.line)

\* C2: a non-empty line that is no numbered item, read while the active
\* list indent n is greater than 0, is in the output left-padded with n
\* spaces, also after wrap_text.
C2_ContinuationPadded ==
  ReadContinuation =>
    /\ Len(md_last.out) >= md_last.indent_before
    /\ SubSeq(md_last.out, 1, md_last.indent_before) = Spaces(md_last.indent_before)

\* C7: a Normal-state line "# x" is rendered as three output lines: an
\* empty line, bold-on x reset, an empty line.
C7_HeadingThreeLines ==
  ReadNormal =>
    \A x \in PlainSpans :
      (md_last.line = <<"#", " ">> \o x /\ md_last.indent_before = 0)
        => SplitNewline(md_last.out) = << <<>>, BOLD \o x \o RESET, <<>> >>

\* C8: for every Normal-state line that contains *x* or _x_, x starting and
\* ending with a non-whitespace character, also next to a space inside a
\* sentence, the output holds italic-on x reset, and the words around the
\* span stay separated from it by a space.
C8_ItalicRendered ==
  ReadNormal =>
    \A d \in {"*", "_"}, x \in LongSpans :
      LET span == <<d>> \o x \o <<d>>
          shown == ITALIC \o x \o RESET
      IN  /\ md_last.line = span => md_last.out = shown
          /\ \A u \in PlainSpans :
               /\ md_last.line = u \o <<" ">> \o span
                    => md_last.out = u \o <<" ">> \o shown
               /\ md_last.line = span \o <<" ">> \o u
                    => md_last.out = shown \o <<" ">> \o u

\* The line read last is a Normal-state line that does not start with
\* whitespace, is no numbered item and is not the Next Steps heading.
ReadPlainUnindented ==
  /\ ReadNormal
  /\ md_last.line = <<>> \/ md_last.line[1] \notin Whitespace
  /\ NumPartLen(md_last.line) = 0
  /\ ~NextStepsMatch(md_last.line)

\* C9, as stated: such a line leaves the list context equal to (indent 0,
\* flag false), whatever the list indent was before the line.
C9_PlainLineResets ==
  ReadPlainUnindented =>
    current_list_indent = 0 /\ in_next_steps_section = FALSE

\* C9, amended: such a line leaves the list context equal to (0, false)
\* when the list indent before it is 0 or the line is empty; when the list
\* indent before it is greater than 0 and the line is not empty, the line
\* is a list continuation and leaves indent and flag as they were.
C9_PlainLineResetsOutsideList ==
  ReadPlainUnindented =>
    IF md_last.indent_before > 0 /\ md_last.line # <<>>
    THEN /\ current_list_indent = md_last.indent_before
         /\ in_next_steps_section = md_last.next_steps_before
    ELSE /\ current_list_indent = 0
         /\ in_next_steps_section = FALSE

\* C9, witness: a plain line read right after the Next Steps heading, with
\* no list indent: the flag was set before it and is clear after it.
C9_Witness ==
  /\ ReadPlainUnindented
  /\ md_last.line = <<"a">>
  /\ md_last.indent_before = 0
  /\ md_last.next_steps_before = TRUE
  /\ in_next_steps_section = FALSE

\* C10: the transformer leaves InCodeBlock exactly on the next bare fence
\* line: a line inside a block that starts with three backticks followed
\* by other text does not close the block and is kept as a body line.
C10_OnlyBareFenceCloses ==
  /\ md_last.kind = "close" => md_last.line = FENCE
  /\ ( /\ md_last.kind \in {"close", "code"}
       /\ StartsAt(md_last.line, 1, FENCE)
       /\ md_last.line # FENCE )
     => /\ in_code_block
        /\ code_block_content # <<>>
        /\ code_block_content[Len(code_block_content)] = md_last.line

\* ---------------------------------------------- claims: fenced code blocks

\* The lines the closing fence appended to the output for its block.
BlockOutLines ==
  IF md_last.pushed THEN SplitNewline(md_last.out) ELSE <<>>

\* C11: for every closed fenced block with n body lines the transformer
\* appends exactly n output lines, one per body line in source order, with
\* no wrapping and no inline substitution: without its colour codes, output
\* line k is body line k.  Stated here for the blocks that have a body
\* line which is not blank.
C11_OneOutputLinePerBodyLine ==
  ( /\ md_last.kind = "close"
    /\ ~IsBlank(Flatten(md_last.body, <<"\n">>)) )
  => /\ Len(BlockOutLines) = Len(md_last.body)
     /\ \A k \in 1..Len(md_last.body) :
          k <= Len(BlockOutLines) => StripAnsi(BlockOutLines[k]) = md_last.body[k]

\* ------------------------------------------------ claims: analyze_commands

AnCommands == {<<"l", "s">>, <<"c", "d">>}

\* The reply ends with a line "Did you mean: `cmd`", in any letter case.
EndsWithSuggestion(text, cmd) ==
  LET ls == Lines(text)
  IN  /\ ls # <<>>
      /\ Len(ls[Len(ls)]) = Len(DidYouMean) + Len(cmd) + 4
      /\ StartsAtNoCase(ls[Len(ls)], 1, DidYouMean)
      /\ Suffix(ls[Len(ls)], Len(DidYouMean) + 1) = <<":", " ", BACKTICK>> \o cmd \o <<BACKTICK>>

\* The number of places where pat occurs in s.
Occurrences(s, pat) == Cardinality({p \in 1..Len(s) : StartsAt(s, p, pat)})

\* C12: when the reply ends with a line "Did you mean: `cmd`" (matched in
\* any letter case at the start of the line), the suggestion returned is
\* cmd, taken from that trailing line and not from an earlier matching
\* line; the text passed to the Markdown transformer has no line starting
\* with "did you mean" and no occurrence of cmd; and the text returned ends
\* with the one appended "Did you mean:" trailer followed by cmd.
C12_SuggestionFromTrailingLine ==
  \A cmd \in AnCommands :
    (an_pc = "done" /\ EndsWithSuggestion(gemini_text, cmd))
    => /\ suggestion = [some |-> TRUE, value |-> cmd]
       /\ \A k \in 1..Len(Lines(md_text)) :
            ~StartsAtNoCase(Lines(md_text)[k], 1, DidYouMean)
       /\ ~Contains(md_text, cmd)
       /\ Len(an_result) >= Len(Trailer(cmd))
       /\ Suffix(an_result, Len(an_result) - Len(Trailer(cmd)) + 1) = Trailer(cmd)
       /\ Occurrences(an_result, <<"D", "i", "d", " ", "y", "o", "u", " ", "m", "e", "a", "n", ":">>) = 1

\* ---------------------------------------------------- claims: display_diff

DiffDone == d_pc = "done"

C14_TotalsOfWholeDiff ==
  DiffDone =>
    LET old == TokenizeLines(d_original)
        new == TokenizeLines(d_new)
    IN  /\ total_additions = CountTag(d_changes, "Insert")
        /\ total_deletions = CountTag(d_changes, "Delete")
        /\ d_printed[1] = [kind |-> "totals", additions |-> total_additions,
                           deletions |-> total_deletions]
        /\ d_original = d_new => total_additions = 0 /\ total_deletions = 0
        /\ d_original = <<>> =>
             total_additions = Len(Lines(d_new)) /\ total_deletions = 0
        /\ ( /\ Len(old) = Len(new)
             /\ Cardinality({k \in 1..Len(old) : old[k] # new[k]}) = 1 )
           => total_additions = 1 /\ total_deletions = 1

\* C14, witness: the second of three lines replaced, one addition and one
\* deletion counted.
C14_Witness ==
  /\ DiffDone
  /\ d_original = <<"a", "\n", "a", "\n", "a">>
  /\ d_new = <<"a", "\n", "b", "\n", "a">>
  /\ total_additions = 1
  /\ total_deletions = 1

\* The changed records of the diff, and the records the preview shows.
ChangedRecords ==
  LET Changed(c) == c.tag # "Equal" IN SelectSeq(d_changes, Changed)
ShownRecords ==
  LET Shown(r) == r.kind \in {"Delete", "Insert", "Equal"}
  IN  SelectSeq(d_printed, Shown)
SummaryLines ==
  LET More(r) == r.kind = "more" IN SelectSeq(d_printed, More)

ReadNumbered ==
  /\ ReadNormal
  /\ NumPartLen(md_last.line) > 0
  /\ ~NextStepsMatch(md_last.line)

Rewrapped == w_pc = "again"

\* C17: wrap_text is idempotent: for every text, width w and indent i < w,
\* wrapping the result again with the same w and i returns it unchanged;
\* no word is split, the words of the result are the words of the input
\* in the same order.
C17_WrapIdempotent ==
  (Rewrapped /\ w_indent < w_max) =>
    /\ w_again = w_out
    /\ SplitWhitespace(w_out.value) = SplitWhitespace(w_text)

\* C17, witness: a text of three words wrapped to three lines at width 1
\* and indent 0, and wrapped again.
C17_Witness ==
  /\ Rewrapped
  /\ w_text = <<"a", " ", "a", " ", "a">>
  /\ w_max = 1
  /\ w_indent = 0
  /\ w_out.value = <<"a", "\n", " ", "a", "\n", " ", "a">>
  /\ w_again = w_out

\* ---------------------------------------- claims: find_syntax_for_language

Resolved == l_pc = "done"

PlainText == <<"P", "l", "a", "i", "n", " ", "T", "e", "x", "t">>

\* The grammars of the set.
Grammars == {SyntaxSet[k] : k \in 1..Len(SyntaxSet)}

\* The alias table has an arm for the tag.
HasAlias(lang_lower) == mapped_lang(lang_lower) # <<>>

\* C18: find_syntax_for_language returns a grammar for every input string
\* and never fails: the empty tag and every tag with no name, extension or
\* alias match resolve to the plain-text grammar, and so does a tag whose
\* alias maps to a canonical name that is absent from the grammar table.
C18_ResolverTotal ==
  Resolved =>
    LET lang_lower == LowerString(l_lang)
        unmatched == /\ \A g \in Grammars :
                          /\ g.name # lang_lower
                          /\ \A e \in g.file_extensions :
                               LowerString(e) # lang_lower
    IN  /\ l_syntax \in Grammars
        /\ l_lang = <<>> => l_syntax.name = PlainText
        /\ (unmatched /\ ~HasAlias(lang_lower)) => l_syntax.name = PlainText
        /\ ( /\ unmatched
             /\ HasAlias(lang_lower)
             /\ \A g \in Grammars : g.name # mapped_lang(lang_lower) )
           => l_syntax.name = PlainText

\* C18, witness: the tag "ts", whose alias names TypeScript, a grammar the
\* set does not have, resolved to the plain-text grammar.
C18_Witness ==
  /\ Resolved
  /\ l_lang = <<"t", "s">>
  /\ mapped_lang(l_lang) = <<"T", "y", "p", "e", "S", "c", "r", "i", "p", "t">>
  /\ l_syntax.name = PlainText

\* C19: find_syntax_for_language lowercases the tag and resolves it in
\* this order of priority: a grammar whose name equals the tag, then a
\* grammar with that file extension, then the entry of the alias table
\* (looked up again by name), then the plain-text fallback; and a tag that
\* is the exact name of a grammar of the set, written in any letter case,
\* resolves to that grammar.
C19_ResolverPriority ==
  Resolved =>
    LET lang_lower == LowerString(l_lang)
        named == {g \in Grammars : g.name = lang_lower}
        extended == {g \in Grammars :
                       \E e \in g.file_extensions : LowerString(e) = lang_lower}
        aliased == {g \in Grammars : g.name = mapped_lang(lang_lower)}
    IN  /\ named # {} => l_syntax \in named
        /\ (named = {} /\ extended # {}) => l_syntax \in extended
        /\ (named = {} /\ extended = {} /\ aliased # {}) => l_syntax \in aliased
        /\ (named = {} /\ extended = {} /\ aliased = {}) => l_syntax.name = PlainText
        /\ \A g \in Grammars :
             LowerString(g.name) = lang_lower => l_syntax = g

\* C20: a fenced block whose language tag is unknown (resolved to the
\* plain-text grammar) is rendered as its source lines unchanged, with no
\* ANSI colour code added; and a line for which the highlighter yields no
\* style range is emitted unmodified.
C20_UnknownTagUnstyled ==
  ( /\ md_last.kind = "close"
    /\ md_last.pushed
    /\ mapped_lang(LowerString(md_last.lang)) = <<>>
    /\ find_syntax_for_language(md_last.lang).name = PlainText )
  => /\ md_last.out = Flatten(Lines(Flatten(md_last.body, <<"\n">>)), <<"\n">>)
     /\ ~Contains(md_last.out, <<ESC>>)
     /\ \A k \in 1..Len(md_last.body) :
          HighlightRanges(find_syntax_for_language(md_last.lang), md_last.body[k]) = <<>>
            => HighlightLine(find_syntax_for_language(md_last.lang), md_last.body[k])
                 = md_last.body[k]

\* ------------------------------------------------ claims: visible length

\* The characters of s that are not part of a complete sequence
\* ESC [ (digits or ;)* letter.
VisibleCharacters(s) == Len(StripAnsi(s))

\* C21: the visible length is defined for every string and counts every
\* character that is not part of a complete ESC [ (digits or ;)* letter
\* sequence: the characters of an unterminated sequence count as ordinary
\* characters, complete sequences count 0.  It is the length the wrap
\* decision uses, and is stated on that decision: two words go on one line
\* exactly when their visible characters and the space between them fit
\* in the effective width.
C21_VisibleLengthCountsCharacters ==
  (WrapDone /\ w_out.kind = "ok" /\ w_indent < w_max) =>
    LET words == SplitWhitespace(w_text)
    IN  Len(words) = 2 =>
          ( VisibleCharacters(words[1]) + 1 + VisibleCharacters(words[2])
              <= w_max - w_indent
            <=> w_out.value = words[1] \o <<" ">> \o words[2] )

\* ---------------------------------------------- claims: write_or_edit_file

\* The positions of the log at which the file was written, a diff shown.
Writes == {i \in 1..Len(f_log) : f_log[i].op = "write"}
Diffs == {i \in 1..Len(f_log) : f_log[i].op = "diff"}

\* C22: when write_or_edit_file returns Ok on a reply, the file has been
\* written if and only if it did not exist or its trimmed content differs
\* from the trimmed proposed content.  At every moment, a write of a file
\* that existed comes after the display of the diff of the content read
\* and the proposed content, and writes exactly that proposed content.
\* When the file existed and the trimmed contents are equal, no diff is
\* shown, nothing is written and the file has the content it had.
C22_WriteIffDifferent ==
  /\ f_pc = "done" =>
       ( Writes # {}
         <=> (~file_exists \/ Trim(original_content) # Trim(cleaned_content)) )
  /\ \A i \in Writes :
       /\ f_log[i].content = cleaned_content
       /\ fs_file = File(cleaned_content)
       /\ file_exists =>
            \E j \in Diffs :
              /\ j < i
              /\ f_log[j].original = original_content
              /\ f_log[j].content = f_log[i].content
              /\ d_original = original_content /\ d_new = cleaned_content
  /\ (f_pc = "done" /\ file_exists
        /\ Trim(original_content) = Trim(cleaned_content)) =>
       /\ Writes = {} /\ Diffs = {}
       /\ fs_file = File(original_content)

\* An existing file has been rewritten with a proposed content that is
\* not its own, after the diff was shown.
C22_Witness ==
  /\ f_pc = "done" /\ file_exists
  /\ Writes # {} /\ Diffs # {}
  /\ fs_file.content # original_content

\* ------------------------------------------------- claims: blank lines

\* C23: a blank line read outside a code block leaves the list context as
\* it was: the list indent and the Next Steps flag after the line are the
\* ones before it.
C23_BlankLineKeepsListContext ==
  (md_last.kind = "normal" /\ IsBlank(md_last.line)) =>
    /\ current_list_indent = md_last.indent_before
    /\ in_next_steps_section = md_last.next_steps_before

\* -------------------------------------------- claims: runs of blank lines

\* Whether s has a run of three newlines or more, that is, two blank
\* lines or more that follow one another inside it.
TwoBlankLines(s) == Contains(StripAnsi(s), <<"\n", "\n", "\n">>)

\* C24: the text convert_markdown_to_ansi returns for a source with no
\* code fence has no two consecutive blank lines inside it: every run of
\* three newlines or more of the source was collapsed to one blank line
\* before the loop.
C24_BlankRunsCollapsed ==
  (md_pc = "done" /\ ~Contains(md_text, FENCE)) => ~TwoBlankLines(md_result)

\* ------------------------------------------- claims: result after spinner

\* The positions of term of a given kind of write.
At(ops) == {i \in 1..Len(term) : term[i].op \in ops}

\* C25: what the workflow reports, the error message included, is written
\* only once the stop signal is sent and the spinner has ended: no frame
\* of the spinner is written after the first write of a result.
C25_ResultAfterSpinner ==
  \A i \in At({"file report", "result", "error"}) :
    \A j \in At({"frame"}) : j < i

\* ----------------------------------------------- claims: the spinner ends

\* Whether the spinner has ended as it must: one hide-cursor write, then
\* only frames, then the clearing of the line and one show-cursor write.
SpinnerEnded ==
  /\ sp_pc = "finished"
  /\ Cardinality(At({"hide cursor"})) = 1
  /\ Cardinality(At({"show cursor"})) = 1
  /\ \A i \in At({"hide cursor"}), j \in At({"clear line"}),
        k \in At({"show cursor"}) :
       /\ i < j /\ k = j + 1
       /\ \A f \in At({"frame"}) : i < f /\ f < j

NoCommandRead ==
  \A k \in 1..Len(history_files) :
    \/ ~ReadHistoryFile(history_files[k], HistoryCount).ok
    \/ ReadHistoryFile(history_files[k], HistoryCount).value = <<>>

\* C29: when no command can be read from any history file,
\* handle_wut_command, once it has looked, has printed that no commands
\* were found and has returned: it has not panicked, it has started no
\* spinner and it has called no client.
C29_EmptyHistoryReported ==
  (handler = "wut" /\ NoCommandRead /\ h_pc # "start") =>
    /\ h_pc = "done"
    /\ term = <<Out("no commands", 0)>>
    /\ sp_pc = "none"

\* ------------------------------------------- claims: an unclosed code block

\* The index of the last fence line of ls, 0 when there is none.
LastFence(ls) ==
  LET fences == {k \in 1..Len(ls) : StartsAt(ls[k], 1, FENCE)}
  IN  IF fences = {} THEN 0 ELSE CHOOSE k \in fences : \A j \in fences : j <= k

RECURSIVE EntryCount(_, _, _)
\* The number of entries the lines ls put into the output: one for a line
\* outside a code block, one for a closed block whose body is not blank.
EntryCount(ls, in_block, some_body) ==
  IF ls = <<>> THEN 0
  ELSE IF StartsAt(Head(ls), 1, FENCE)
  THEN (IF in_block /\ some_body THEN 1 ELSE 0)
         + EntryCount(Tail(ls), ~in_block, FALSE)
  ELSE IF in_block
  THEN EntryCount(Tail(ls), TRUE, some_body \/ ~IsBlank(Head(ls)))
  ELSE 1 + EntryCount(Tail(ls), FALSE, FALSE)

\* C27: when the input ends inside a code block, the text returned is made
\* of the entries of the lines before the opening fence and of nothing
\* else: the lines after the fence are in the buffer and not in the output.
C27_UnclosedBlockDropped ==
  (md_pc = "done" /\ in_code_block) =>
    LET ls == Lines(md_text)
        open == LastFence(ls)
    IN  /\ open > 0
        /\ code_block_content = SubSeq(ls, open + 1, Len(ls))
        /\ Len(result_lines) = EntryCount(SubSeq(ls, 1, open - 1), FALSE, FALSE)
        /\ md_result = Flatten(result_lines, <<"\n">>)

\* A text with a line before the fence and a line after it has been
\* converted.
C27_Witness ==
  /\ md_pc = "done" /\ in_code_block
  /\ code_block_content # <<>>
  /\ \E k \in 1..Len(code_block_content) : ~IsBlank(code_block_content[k])
  /\ result_lines # <<>>

\* --------------------------------------------- claims: the words of a line

\* s without the characters that are markup delimiters.
Unmarked(s) == SelectSeq(s, LAMBDA c : c \notin {"*", "_", BACKTICK, "#"})

\* C28: the words of the entry pushed for a line outside a code block,
\* escape sequences and delimiters apart, are the words of the line,
\* delimiters apart: no space between two words is deleted.
C28_WordsPreserved ==
  md_last.kind = "normal" =>
    SplitWhitespace(Unmarked(StripAnsi(md_last.out)))
      = SplitWhitespace(Unmarked(md_last.line))

\* ------------------------------------------------- claims: clean_prompt

\* Whether s has a complete escape sequence, a \[ or \] marker.
HasSequence(s) == \E p \in 1..Len(s) : AnsiMatchEnd(s, p) > 0
HasMarker(s) == Contains(s, <<BACKSLASH, "[">>) \/ Contains(s, <<BACKSLASH, "]">>)

\* C30: the string clean_prompt returns has no escape sequence and no
\* marker, and is its argument when the argument has neither.
C30_PromptClean ==
  p_pc = "done" =>
    /\ ~HasSequence(p_out)
    /\ ~HasMarker(p_out)
    /\ (~HasSequence(prompt) /\ ~HasMarker(prompt)) => p_out = prompt

====
